---- MODULE Spec2Model ----
(***************************************************************************)
(* Model of the multi-provider API manager (APIManager, BaseProvider,      *)
(* OllamaProvider, OpenAIProvider, AnthropicProvider, GrokProvider) and of *)
(* the newline-delimited JSON stream decoder in                            *)
(* OllamaProvider.streamResponse.                                          *)
(*                                                                         *)
(* Spec        the dispatcher: construction, setProvider and the four      *)
(*             forwarding operations, each forwarded call run to its end.  *)
(* SpecStream  one OllamaProvider.streamResponse call, one step per await  *)
(*             (the fetch, every reader.read()).                           *)
(***************************************************************************)
EXTENDS Integers, Sequences, FiniteSets, TLC

\* ------------------------------------------------------------------ bounds
\* lines in one streamed response body (SpecStream)
MaxLines == 2
\* reads in the body of a stream call forwarded by the dispatcher (Spec)
MaxFwdReads == 1

\* ------------------------------------------------------- text and decoding
\* Bytes of a response body.  "{" and "}" delimit a JSON object, "a" and "b"
\* are characters of the value of its "response" member, "!" stands for the
\* member "done":true, C3 A9 is the two-byte UTF-8 encoding of one character
\* (written E once decoded), " " is white space and NL the line feed.
NL == "\n"

\* U+FFFD, what TextDecoder puts in place of a malformed byte sequence
Replacement == "?"

Letters == {"a", "b", "E", Replacement}

\* decoder.decode(value): a fresh decode of every read (no {stream: true}),
\* so a multi-byte character cut by the read boundary is not carried over
RECURSIVE Decode(_)
Decode(bytes) ==
    IF bytes = <<>> THEN <<>>
    ELSE IF Len(bytes) >= 2 /\ bytes[1] = "C3" /\ bytes[2] = "A9"
         THEN <<"E">> \o Decode(SubSeq(bytes, 3, Len(bytes)))
    ELSE IF bytes[1] \in {"C3", "A9"}
         THEN <<Replacement>> \o Decode(Tail(bytes))
    ELSE <<bytes[1]>> \o Decode(Tail(bytes))

\* chunk.split('\n'): the pieces between line feeds, empty pieces included
RECURSIVE SplitFrom(_, _)
SplitFrom(text, piece) ==
    IF text = <<>> THEN <<piece>>
    ELSE IF Head(text) = NL THEN <<piece>> \o SplitFrom(Tail(text), <<>>)
    ELSE SplitFrom(Tail(text), Append(piece, Head(text)))

Split(text) == SplitFrom(text, <<>>)

\* String.prototype.trim
RECURSIVE TrimLeft(_)
TrimLeft(s) ==
    IF s # <<>> /\ Head(s) \in {" ", NL} THEN TrimLeft(Tail(s)) ELSE s

RECURSIVE TrimRight(_)
TrimRight(s) ==
    IF s # <<>> /\ s[Len(s)] \in {" ", NL}
    THEN TrimRight(SubSeq(s, 1, Len(s) - 1)) ELSE s

Trim(s) == TrimRight(TrimLeft(s))

\* chunk.split('\n').filter(line => line.trim())
NonBlankLines(text) == SelectSeq(Split(text), LAMBDA line : Trim(line) # <<>>)

\* a parser that repairs an object whose closing brace is missing
ParseLine_RepairsTruncated(line) ==
    LET t == Trim(line)
        n == Len(t)
        closed == n >= 2 /\ t[n] = "}"
        body == IF closed THEN SubSeq(t, 2, n - 1) ELSE SubSeq(t, 2, n)
        wellFormed ==
            /\ n >= 2
            /\ t[1] = "{"
            /\ \A i \in 1..Len(body) :
                  \/ body[i] \in Letters
                  \/ body[i] = "!" /\ i = Len(body)
    IN  IF wellFormed
        THEN [ok |-> TRUE,
              response |-> SelectSeq(body, LAMBDA c : c \in Letters),
              done |-> body # <<>> /\ body[Len(body)] = "!"]
        ELSE [ok |-> FALSE, response |-> <<>>, done |-> FALSE]

\* JSON.parse(line) followed by the reads of data.response and data.done.
\* Only a whole object parses; white space around it is allowed.
ParseLine(line) ==
    LET t == Trim(line)
        n == Len(t)
        body == IF n >= 2 THEN SubSeq(t, 2, n - 1) ELSE <<>>
        wellFormed ==
            /\ n >= 2
            /\ t[1] = "{"
            /\ t[n] = "}"
            /\ \A i \in 1..Len(body) :
                  \/ body[i] \in Letters
                  \/ body[i] = "!" /\ i = Len(body)
    IN  IF wellFormed
        THEN [ok |-> TRUE,
              response |-> SelectSeq(body, LAMBDA c : c \in Letters),
              done |-> body # <<>> /\ body[Len(body)] = "!"]
        ELSE [ok |-> FALSE, response |-> <<>>, done |-> FALSE]

\* ------------------------------------------------------------------- sink
\* The caller's onChunk.  A sink is described by the invocations it throws
\* from: its text invocations, its terminal invocation, both or neither.
Sinks == [throwsOnText : BOOLEAN, throwsOnFinal : BOOLEAN]

QuietSink == [throwsOnText |-> FALSE, throwsOnFinal |-> FALSE]

SinkThrows(sink, isFinal) ==
    IF isFinal THEN sink.throwsOnFinal ELSE sink.throwsOnText

Chunk(text, isFinal) == [text |-> text, isFinal |-> isFinal]

\* the text invocations of a log of sink invocations
TextChunks(log) == SelectSeq(log, LAMBDA c : ~c.isFinal)

\* ------------------------------------- OllamaProvider.streamResponse loop
\* for (const line of lines) { try { ... } catch (e) { continue; } }
\* Both onChunk calls are inside the try, so a throwing sink is caught like
\* a parse failure and the loop goes on to the next line.
\* a line loop that stops at the first line JSON.parse rejects
RECURSIVE ProcessLines_AbortOnBadLine(_, _, _)
ProcessLines_AbortOnBadLine(lines, sink, log) ==
    IF lines = <<>> THEN [log |-> log, returned |-> FALSE]
    ELSE
      LET data == ParseLine(Head(lines))
          rest == Tail(lines)
          hasText == data.response # <<>>
          logText == IF hasText THEN Append(log, Chunk(data.response, FALSE))
                     ELSE log
          logFinal == Append(logText, Chunk(<<>>, TRUE))
      IN  IF ~data.ok THEN [log |-> log, returned |-> FALSE]
          ELSE IF hasText /\ SinkThrows(sink, FALSE)
               THEN ProcessLines_AbortOnBadLine(rest, sink, logText)
          ELSE IF ~data.done THEN ProcessLines_AbortOnBadLine(rest, sink, logText)
          ELSE IF SinkThrows(sink, TRUE)
               THEN ProcessLines_AbortOnBadLine(rest, sink, logFinal)
          ELSE [log |-> logFinal, returned |-> TRUE]

\* a line loop that handles one line of a read and leaves the others
ProcessLines_FirstLineOnly(lines, sink, log) ==
    IF lines = <<>> THEN [log |-> log, returned |-> FALSE]
    ELSE
      LET data == ParseLine(Head(lines))
          hasText == data.response # <<>>
          logText == IF hasText THEN Append(log, Chunk(data.response, FALSE))
                     ELSE log
          logFinal == Append(logText, Chunk(<<>>, TRUE))
      IN  IF ~data.ok THEN [log |-> log, returned |-> FALSE]
          ELSE IF hasText /\ SinkThrows(sink, FALSE)
               THEN [log |-> logText, returned |-> FALSE]
          ELSE IF ~data.done THEN [log |-> logText, returned |-> FALSE]
          ELSE IF SinkThrows(sink, TRUE)
               THEN [log |-> logFinal, returned |-> FALSE]
          ELSE [log |-> logFinal, returned |-> TRUE]

RECURSIVE ProcessLines(_, _, _)
ProcessLines(lines, sink, log) ==
    IF lines = <<>> THEN [log |-> log, returned |-> FALSE]
    ELSE
      LET data == ParseLine(Head(lines))
          rest == Tail(lines)
          hasText == data.response # <<>>
          logText == IF hasText THEN Append(log, Chunk(data.response, FALSE))
                     ELSE log
          logFinal == Append(logText, Chunk(<<>>, TRUE))
      IN  IF ~data.ok THEN ProcessLines(rest, sink, log)
          ELSE IF hasText /\ SinkThrows(sink, FALSE)
               THEN ProcessLines(rest, sink, logText)
          ELSE IF ~data.done THEN ProcessLines(rest, sink, logText)
          ELSE IF SinkThrows(sink, TRUE)
               THEN ProcessLines(rest, sink, logFinal)
          ELSE [log |-> logFinal, returned |-> TRUE]

\* one turn of the while loop after reader.read() gave {done: false, value}
ProcessRead(value, sink, log) ==
    ProcessLines(NonBlankLines(Decode(value)), sink, log)

\* outcomes of an HTTP request
Net == {"ok", "http_error", "network_error"}

\* how a body ends: end of stream, or a read that rejects
Endings == {"eof", "reject"}

Return(v, log) == [outcome |-> "return", value |-> v, sink |-> log]

Throw(msg, log) == [outcome |-> "throw", value |-> msg, sink |-> log]

\* catch (error) { throw new Error(`Ollama streaming failed: ${error.message}`) }
StreamError(cause) ==
    CASE cause = "http_error" -> "Ollama streaming failed: HTTP status"
      [] cause = "network_error" -> "Ollama streaming failed: fetch cause"
      [] OTHER -> "Ollama streaming failed: read cause"

\* while (true) { const {done, value} = await reader.read(); ... }
RECURSIVE ReadLoop(_, _, _, _)
ReadLoop(reads, ending, sink, log) ==
    IF reads = <<>>
    THEN IF ending = "eof" THEN Return("undefined", log)
         ELSE Throw(StreamError("read_error"), log)
    ELSE LET r == ProcessRead(Head(reads), sink, log)
         IN  IF r.returned THEN Return("undefined", r.log)
             ELSE ReadLoop(Tail(reads), ending, sink, r.log)

\* OllamaProvider.streamResponse run to its end: env gives the outcome of the
\* fetch, the reads of the body, how the body ends, and the sink
OllamaStreamResponse(env) ==
    IF env.net # "ok" THEN Throw(StreamError(env.net), <<>>)
    ELSE ReadLoop(env.reads, env.ending, env.sink, <<>>)

\* -------------------------------------------------------------- providers
\* JavaScript values held in currentProvider or found by a property read
Null == [kind |-> "null", name |-> "null", supportsStreaming |-> FALSE]

Undefined == [kind |-> "undefined", name |-> "undefined", supportsStreaming |-> FALSE]

\* a provider instance: this.name and this.supportsStreaming as its
\* constructor sets them
Provider(n) == [kind |-> "provider", name |-> n, supportsStreaming |-> TRUE]

\* a function inherited from Object.prototype
ProtoFunction(n) == [kind |-> "function", name |-> n, supportsStreaming |-> FALSE]

ProviderNames == {"ollama", "openai", "anthropic", "grok"}

\* properties every object literal inherits from Object.prototype
ObjectPrototypeNames == {"toString"}

\* names a caller or the configuration may pass
Names == ProviderNames \cup ObjectPrototypeNames \cup {"mistral"}

\* this.providers = { ollama: ..., openai: ..., anthropic: ..., grok: ... }
NewRegistry == [n \in ProviderNames |-> Provider(n)]

\* this.providers[providerName]: an own property, else one inherited from
\* Object.prototype, else undefined
Lookup(registry, name) ==
    IF name \in DOMAIN registry THEN registry[name]
    ELSE IF name \in ObjectPrototypeNames THEN ProtoFunction(name)
    ELSE Undefined

\* truthiness of a value in `if (v)` and `!v`
Truthy(v) == v.kind \notin {"null", "undefined"}

\* the class of the provider defines streamResponse itself
ImplementsStreaming(p) == p.name = "ollama"

\* BaseProvider.streamResponse, inherited where a provider defines none
BaseStreamResponse(p) ==
    IF ~p.supportsStreaming
    THEN Throw("Streaming not supported by this provider", <<>>)
    ELSE Throw("streamResponse not implemented", <<>>)

\* BaseProvider.generateResponse
BaseGenerateResponse(p) == Throw("generateResponse not implemented", <<>>)

BoolValue(b) == IF b THEN "true" ELSE "false"

\* OllamaProvider
OllamaTestConnection(env) == Return(BoolValue(env.net = "ok"), <<>>)

\* env.json: response.json() resolves (the body is JSON); any throw inside
\* the try gives []
OllamaGetAvailableModels(env) ==
    IF env.net = "ok" /\ env.json THEN Return("models of ollama", <<>>)
    ELSE Return("[]", <<>>)

OllamaGenerateResponse(env) ==
    CASE env.net = "network_error" -> Throw("Ollama generation failed: fetch cause", <<>>)
      [] env.net = "http_error" -> Throw("Ollama generation failed: HTTP status", <<>>)
      [] ~env.json -> Throw("Ollama generation failed: JSON cause", <<>>)
      [] OTHER -> Return("response text", <<>>)

\* a probe sent without looking at the API key
OpenAITestConnection_NoKeyCheck(env) == Return(BoolValue(env.net = "ok"), <<>>)

\* OpenAIProvider
OpenAITestConnection(env) ==
    IF ~env.apiKey THEN Return("false", <<>>)
    ELSE Return(BoolValue(env.net = "ok"), <<>>)

\* a model listing that lets the failure of the request through
OpenAIGetAvailableModels_Propagates(env) ==
    IF env.net = "ok" /\ env.json THEN Return("models of openai", <<>>)
    ELSE Throw("OpenAI models failed", <<>>)

\* no response.ok test: the error body of a non-2xx answer has no data
\* member, and (data.data || []) is empty; any throw inside the try gives []
OpenAIGetAvailableModels(env) ==
    IF env.net = "ok" /\ env.json THEN Return("models of openai", <<>>)
    ELSE Return("[]", <<>>)

\* no response.ok test: data.choices[0] of an error body throws a TypeError,
\* which the catch wraps in place of the HTTP status
OpenAIGenerateResponse(env) ==
    CASE env.net = "network_error" -> Throw("OpenAI generation failed: fetch cause", <<>>)
      [] ~env.json -> Throw("OpenAI generation failed: JSON cause", <<>>)
      [] env.net = "http_error" ->
            Throw("OpenAI generation failed: Cannot read properties of undefined", <<>>)
      [] OTHER -> Return("response text", <<>>)

\* AnthropicProvider and GrokProvider
StubTestConnection == Return("false", <<>>)

StubGetAvailableModels(p) ==
    IF p.name = "anthropic" THEN Return("models of anthropic", <<>>)
    ELSE Return("models of grok", <<>>)

ForwardingOps == {"testConnection", "getAvailableModels", "generateResponse", "streamResponse"}

\* method `op` of provider instance p, by the class of p
ProviderOp(p, op, env) ==
    CASE op = "testConnection" ->
            (CASE p.name = "ollama" -> OllamaTestConnection(env)
               [] p.name = "openai" -> OpenAITestConnection(env)
               [] OTHER -> StubTestConnection)
      [] op = "getAvailableModels" ->
            (CASE p.name = "ollama" -> OllamaGetAvailableModels(env)
               [] p.name = "openai" -> OpenAIGetAvailableModels(env)
               [] OTHER -> StubGetAvailableModels(p))
      [] op = "generateResponse" ->
            (CASE p.name = "ollama" -> OllamaGenerateResponse(env)
               [] p.name = "openai" -> OpenAIGenerateResponse(env)
               [] OTHER -> BaseGenerateResponse(p))
      [] OTHER ->
            (CASE p.name = "ollama" -> OllamaStreamResponse(env)
               [] OTHER -> BaseStreamResponse(p))

\* ------------------------------------------------------------- APIManager
VARIABLES
    configDefault,      \* config.get('DEFAULT_PROVIDER', 'ollama')
    providers,          \* this.providers
    currentProvider,    \* this.currentProvider
    lastOp,             \* the last call made on the manager and how it ended
    selected,           \* history: name given to the last setProvider that returned true
    setProviderCalled,  \* history: the caller has called setProvider
    pc,                 \* SpecStream: where the streamResponse call stands
    content,            \* SpecStream: the bytes of the response body
    remaining,          \* SpecStream: the bytes not yet read
    sink,               \* SpecStream: the onChunk given to the call
    sinkLog,            \* SpecStream: the onChunk invocations of the call
    failure,            \* SpecStream: message of the error the call threw
    appInitialized,     \* app.isInitialized
    appGenerating,      \* app.isGenerating
    appProvider,        \* app.currentProvider
    chatGenerating,     \* chatManager.isGenerating
    chatPc,             \* where chatManager.sendMessage stands
    enableStreaming,    \* config.get('ENABLE_STREAMING', true)
    inputValue,         \* value of the message-input field
    inputDisabled,      \* disabled state of the send button and the input field
    display,            \* the message groups of the chat display
    nextId,             \* history: number of bot message ids handed out
    botMessageId,       \* botMessageId of the turn
    accumulated,        \* accumulatedResponse of the turn
    saveLog,            \* history: the messages given to storageManager.saveMessage
    stored,             \* messages of the current conversation in localStorage
    conversationId,     \* chatManager.currentConversationId
    genTarget,          \* history: the provider that got the generation call of the turn
    lastError,          \* the last message given to uiManager.showError
    lastTrigger,        \* history: how the last send trigger ended
    outstanding,        \* history: chatManager.sendMessage calls not yet settled
    turns,              \* history: number of chat turns begun
    turn,               \* history: what the turn began with
    calls,              \* SpecCalls: the chatManager.sendMessage calls and where each stands
    local,              \* localStorage: the items under the three keys of StorageManager
    maxMessagesPerConversation, \* storageManager.maxMessagesPerConversation
    storageOps,         \* StorageManager operations run so far; the clock of Date.now()
    requested,          \* history: the messages of the current conversation as the calls gave them
    savedSeq,           \* history: the same, of the calls whose write localStorage accepted
    exported,           \* the string the last exportData() returned
    lastStorageOp,      \* history: the last StorageManager operation and what it returned
    conversationMemory, \* config.get('CONVERSATION_MEMORY', true)
    context,            \* the prompt the last buildConversationContext returned
    toast,              \* the last notification shown by showToast / showError
    historyOp,          \* history: the last operation of SpecHistory
    clientConnected,    \* single-file client: this.isConnected
    clientGenerating,   \* single-file client: this.isGenerating
    clientHistory,      \* single-file client: this.conversationHistory
    clientStored        \* single-file client: the localStorage item under storageKey

managerVars == <<configDefault, providers, currentProvider, lastOp, selected, setProviderCalled>>

streamVars == <<pc, content, remaining, sink, sinkLog, failure>>

vars == <<configDefault, providers, currentProvider, lastOp, selected, setProviderCalled,
          pc, content, remaining, sink, sinkLog, failure,
          appInitialized, appGenerating, appProvider, chatGenerating, chatPc,
          enableStreaming, inputValue, inputDisabled, display, nextId,
          botMessageId, accumulated, saveLog, stored, conversationId,
          genTarget, lastError, lastTrigger, outstanding, turns, turn,
          calls, local, maxMessagesPerConversation, storageOps, requested,
          savedSeq, exported, lastStorageOp, conversationMemory, context, toast,
          historyOp, clientConnected, clientGenerating, clientHistory, clientStored>>

chatVars == <<appInitialized, appGenerating, appProvider, chatGenerating, chatPc,
              enableStreaming, inputValue, inputDisabled, display, nextId,
              botMessageId, accumulated, saveLog, stored, conversationId,
              genTarget, lastError, lastTrigger, outstanding, turns, turn>>

\* (prompt, model, options) of a generation call
Prompts == {"p1", "p2"}

\* reads a forwarded stream call may get from the server
FwdReads ==
    { <<"{", "a", "}", NL, "{", "!", "}", NL>>,
      <<"{", "!", "}", NL, "{", "b">> }

FwdBodies == UNION { [1..n -> FwdReads] : n \in 0..MaxFwdReads }

NoEnv == [net |-> "ok", apiKey |-> TRUE, json |-> TRUE,
          reads |-> <<>>, ending |-> "eof", sink |-> QuietSink]

\* what the network and the caller's sink do during one forwarded call
ProbeEnvs ==
    { [NoEnv EXCEPT !.net = n, !.apiKey = k] : n \in Net, k \in BOOLEAN }
    \cup
    { [NoEnv EXCEPT !.net = n, !.json = FALSE] : n \in Net \ {"network_error"} }

StreamEnvs ==
    { [NoEnv EXCEPT !.net = n, !.sink = s] : n \in Net \ {"ok"}, s \in Sinks }
    \cup
    { [NoEnv EXCEPT !.reads = r, !.ending = e, !.sink = s] :
        r \in FwdBodies, e \in Endings, s \in Sinks }

\* setProvider(providerName): the new currentProvider and the value returned
SetProviderOutcome(registry, cp, name) ==
    IF Truthy(Lookup(registry, name))
    THEN [currentProvider |-> Lookup(registry, name), ret |-> TRUE]
    ELSE [currentProvider |-> cp, ret |-> FALSE]

\* a constructor that selects no default provider
Construct_NoDefault(default) ==
    [providers |-> NewRegistry, currentProvider |-> Null, selected |-> "none"]

\* constructor(config) with initializeProviders()
Construct(default) ==
    [providers |-> NewRegistry,
     currentProvider |-> SetProviderOutcome(NewRegistry, Null, default).currentProvider,
     selected |-> IF SetProviderOutcome(NewRegistry, Null, default).ret
                  THEN default ELSE "none"]

\* the guard left out
NoProviderSelected_NoGuard(cp) == FALSE

\* if (!this.currentProvider)
NoProviderSelected(cp) == ~Truthy(cp)

Ended(r, callee, calleeOp, calleeArg) ==
    [outcome |-> r.outcome, value |-> r.value, sink |-> r.sink,
     callee |-> callee, calleeOp |-> calleeOp, calleeArg |-> calleeArg]

\* await target.op(args): the method of a provider instance; on any other
\* value the member is not a function and the call throws a TypeError
CallMethod(target, op, arg, env) ==
    IF target.kind = "provider"
    THEN Ended(ProviderOp(target, op, env), target.name, op, arg)
    ELSE IF target.kind = "function"
    THEN Ended(Throw("TypeError: not a function", <<>>), "none", "none", "none")
    ELSE Ended(Throw("TypeError: cannot read properties", <<>>), "none", "none", "none")

NoProviderError == Ended(Throw("No provider selected", <<>>), "none", "none", "none")

\* APIManager.testConnection
TestConnectionCall(cp, env) ==
    IF NoProviderSelected(cp) THEN NoProviderError
    ELSE CallMethod(cp, "testConnection", "none", env)

\* APIManager.getAvailableModels
GetAvailableModelsCall(cp, env) ==
    IF NoProviderSelected(cp) THEN NoProviderError
    ELSE CallMethod(cp, "getAvailableModels", "none", env)

\* APIManager.generateResponse
GenerateResponseCall(cp, arg, env) ==
    IF NoProviderSelected(cp) THEN NoProviderError
    ELSE CallMethod(cp, "generateResponse", arg, env)

\* APIManager.streamResponse
StreamResponseCall(cp, arg, env) ==
    IF NoProviderSelected(cp) THEN NoProviderError
    ELSE CallMethod(cp, "streamResponse", arg, env)

OpRecord(op, arg, env, e) ==
    [op |-> op, arg |-> arg, pre |-> currentProvider, env |-> env,
     outcome |-> e.outcome, value |-> e.value, sink |-> e.sink,
     callee |-> e.callee, calleeOp |-> e.calleeOp, calleeArg |-> e.calleeArg]

NoOp == [op |-> "none", arg |-> "none", pre |-> Null, env |-> NoEnv,
         outcome |-> "return", value |-> "undefined", sink |-> <<>>,
         callee |-> "none", calleeOp |-> "none", calleeArg |-> "none"]

StreamIdle ==
    /\ pc = "idle"
    /\ content = <<>>
    /\ remaining = <<>>
    /\ sink = QuietSink
    /\ sinkLog = <<>>
    /\ failure = "none"

\* the variables of the other specifications
\* this.maxMessagesPerConversation = config.get('MAX_MESSAGES_PER_CONVERSATION', 100)
MaxMessagesPerConversation == 100

storageVars == <<local, maxMessagesPerConversation, storageOps, requested,
                 savedSeq, exported, lastStorageOp>>

historyVars == <<conversationMemory, context, toast, historyOp>>

clientVars == <<clientConnected, clientGenerating, clientHistory, clientStored>>

otherVars == <<calls, storageVars, historyVars, clientVars>>

\* localStorage without an item of the application, and no operation run
StorageIdle ==
    /\ local = [conversations |-> Null, current |-> Null, settings |-> Null]
    /\ maxMessagesPerConversation = MaxMessagesPerConversation
    /\ storageOps = 0
    /\ requested = <<>>
    /\ savedSeq = <<>>
    /\ exported = Null
    /\ lastStorageOp = [op |-> "none", result |-> Null]

\* no prompt built, no notification shown
HistoryIdle ==
    /\ conversationMemory = TRUE
    /\ context = Null
    /\ toast = "none"
    /\ historyOp = [op |-> "none", confirmed |-> FALSE]

\* the single-file client as constructed with an empty localStorage
ClientIdle ==
    /\ clientConnected = FALSE
    /\ clientGenerating = FALSE
    /\ clientHistory = <<>>
    /\ clientStored = Null

OtherIdle ==
    /\ calls = <<>>
    /\ StorageIdle
    /\ HistoryIdle
    /\ ClientIdle

NoTrigger == "none"

NoTurn == [message |-> <<>>, saved |-> 0]

\* the application after setupEventListeners(), with an empty localStorage
ChatIdle ==
    /\ appInitialized = FALSE
    /\ appGenerating = FALSE
    /\ appProvider = "ollama"
    /\ chatGenerating = FALSE
    /\ chatPc = "idle"
    /\ inputValue = <<>>
    /\ inputDisabled = FALSE
    /\ display = <<>>
    /\ nextId = 0
    /\ botMessageId = 0
    /\ accumulated = <<>>
    /\ saveLog = <<>>
    /\ stored = <<>>
    /\ conversationId = "default"
    /\ genTarget = Null
    /\ lastError = "none"
    /\ lastTrigger = NoTrigger
    /\ outstanding = 0
    /\ turns = 0
    /\ turn = NoTurn

Init ==
    /\ configDefault \in Names
    /\ providers = Construct(configDefault).providers
    /\ currentProvider = Construct(configDefault).currentProvider
    /\ selected = Construct(configDefault).selected
    /\ setProviderCalled = FALSE
    /\ lastOp = NoOp
    /\ StreamIdle
    /\ ChatIdle
    /\ OtherIdle
    /\ enableStreaming = TRUE

SetProvider(name) ==
    LET o == SetProviderOutcome(providers, currentProvider, name) IN
    /\ currentProvider' = o.currentProvider
    /\ selected' = IF o.ret THEN name ELSE selected
    /\ setProviderCalled' = TRUE
    /\ lastOp' = OpRecord("setProvider", name, NoEnv,
                          Ended(Return(BoolValue(o.ret), <<>>), "none", "none", "none"))
    /\ UNCHANGED <<configDefault, providers>>
    /\ UNCHANGED streamVars
    /\ UNCHANGED chatVars
    /\ UNCHANGED otherVars

\* setCurrentProvider(providerName) { return this.setProvider(providerName); }
SetCurrentProviderStep(name) ==
    LET o == SetProviderOutcome(providers, currentProvider, name) IN
    /\ currentProvider' = o.currentProvider
    /\ selected' = IF o.ret THEN name ELSE selected
    /\ setProviderCalled' = TRUE
    /\ lastOp' = OpRecord("setCurrentProvider", name, NoEnv,
                          Ended(Return(BoolValue(o.ret), <<>>), "none", "none", "none"))
    /\ UNCHANGED <<configDefault, providers>>

SetCurrentProvider(name) ==
    /\ SetCurrentProviderStep(name)
    /\ UNCHANGED streamVars
    /\ UNCHANGED chatVars
    /\ UNCHANGED otherVars

GetCurrentProvider ==
    /\ lastOp' = OpRecord("getCurrentProvider", "none", NoEnv,
                          Ended(Return(currentProvider.name, <<>>), "none", "none", "none"))
    /\ UNCHANGED <<configDefault, providers, currentProvider, selected, setProviderCalled>>
    /\ UNCHANGED streamVars
    /\ UNCHANGED chatVars
    /\ UNCHANGED otherVars

TestConnection(env) ==
    /\ lastOp' = OpRecord("testConnection", "none", env,
                          TestConnectionCall(currentProvider, env))
    /\ UNCHANGED <<configDefault, providers, currentProvider, selected, setProviderCalled>>
    /\ UNCHANGED streamVars
    /\ UNCHANGED chatVars
    /\ UNCHANGED otherVars

GetAvailableModels(env) ==
    /\ lastOp' = OpRecord("getAvailableModels", "none", env,
                          GetAvailableModelsCall(currentProvider, env))
    /\ UNCHANGED <<configDefault, providers, currentProvider, selected, setProviderCalled>>
    /\ UNCHANGED streamVars
    /\ UNCHANGED chatVars
    /\ UNCHANGED otherVars

GenerateResponse(arg, env) ==
    /\ lastOp' = OpRecord("generateResponse", arg, env,
                          GenerateResponseCall(currentProvider, arg, env))
    /\ UNCHANGED <<configDefault, providers, currentProvider, selected, setProviderCalled>>
    /\ UNCHANGED streamVars
    /\ UNCHANGED chatVars
    /\ UNCHANGED otherVars

StreamResponse(arg, env) ==
    /\ lastOp' = OpRecord("streamResponse", arg, env,
                          StreamResponseCall(currentProvider, arg, env))
    /\ UNCHANGED <<configDefault, providers, currentProvider, selected, setProviderCalled>>
    /\ UNCHANGED streamVars
    /\ UNCHANGED chatVars
    /\ UNCHANGED otherVars

Next ==
    \/ \E name \in Names : SetProvider(name)
    \/ \E name \in Names : SetCurrentProvider(name)
    \/ GetCurrentProvider
    \/ \E env \in ProbeEnvs : TestConnection(env)
    \/ \E env \in ProbeEnvs : GetAvailableModels(env)
    \/ \E arg \in Prompts, env \in ProbeEnvs : GenerateResponse(arg, env)
    \/ \E arg \in Prompts, env \in StreamEnvs : StreamResponse(arg, env)

Spec == Init /\ [][Next]_vars

\* ---------------------------------- OllamaProvider.streamResponse by steps
\* lines a server may put in a body: text, text with the completion flag,
\* the flag alone, an object with neither, a line that is not JSON, a blank
\* line, and text holding a two-byte character
BodyLines ==
    { <<"{", "a", "}">>,
      <<"{", "b", "!", "}">>,
      <<"{", "!", "}">>,
      <<"{", "}">>,
      <<"}", "{">>,
      <<" ">>,
      <<"{", "C3", "A9", "}">> }

RECURSIVE Join(_)
Join(lines) ==
    IF lines = <<>> THEN <<>> ELSE Head(lines) \o <<NL>> \o Join(Tail(lines))

Bodies == { Join(ls) : ls \in UNION { [1..n -> BodyLines] : n \in 0..MaxLines } }

InitStream ==
    /\ configDefault = "ollama"
    /\ providers = Construct(configDefault).providers
    /\ currentProvider = Construct(configDefault).currentProvider
    /\ selected = Construct(configDefault).selected
    /\ setProviderCalled = FALSE
    /\ lastOp = NoOp
    /\ StreamIdle
    /\ ChatIdle
    /\ OtherIdle
    /\ enableStreaming = TRUE

\* streamResponse(prompt, model, onChunk, options) is called: the fetch is
\* issued.  The provider keeps nothing from one call to the next, so a
\* behaviour follows one call.
StreamBegin(body, onChunk) ==
    /\ pc' = "fetch"
    /\ content' = body
    /\ remaining' = body
    /\ sink' = onChunk
    /\ sinkLog' = <<>>
    /\ failure' = "none"

StreamCall(body, onChunk) ==
    /\ pc = "idle"
    /\ StreamBegin(body, onChunk)
    /\ UNCHANGED managerVars
    /\ UNCHANGED chatVars
    /\ UNCHANGED otherVars

\* await fetch(...) settles; if (!response.ok) throw
FetchSettleStep(net) ==
    /\ pc = "fetch"
    /\ IF net = "ok"
       THEN pc' = "read" /\ failure' = failure
       ELSE pc' = "threw" /\ failure' = StreamError(net)
    /\ UNCHANGED <<content, remaining, sink, sinkLog>>

FetchSettle(net) ==
    /\ FetchSettleStep(net)
    /\ UNCHANGED managerVars
    /\ UNCHANGED chatVars
    /\ UNCHANGED otherVars

\* await reader.read() gives the next k bytes; the lines of that read are
\* processed before the next await
ReadValueStep(k) ==
    /\ pc = "read"
    /\ k \in 1..Len(remaining)
    /\ LET r == ProcessRead(SubSeq(remaining, 1, k), sink, sinkLog) IN
         /\ sinkLog' = r.log
         /\ pc' = IF r.returned THEN "returned" ELSE "read"
    /\ remaining' = SubSeq(remaining, k + 1, Len(remaining))
    /\ UNCHANGED <<content, sink, failure>>

ReadValue(k) ==
    /\ ReadValueStep(k)
    /\ UNCHANGED managerVars
    /\ UNCHANGED chatVars
    /\ UNCHANGED otherVars

\* await reader.read() gives {done: true}: break, and the function returns
ReadDoneStep ==
    /\ pc = "read"
    /\ remaining = <<>>
    /\ pc' = "returned"
    /\ UNCHANGED <<content, remaining, sink, sinkLog, failure>>

ReadDone ==
    /\ ReadDoneStep
    /\ UNCHANGED managerVars
    /\ UNCHANGED chatVars
    /\ UNCHANGED otherVars

\* await reader.read() rejects
ReadRejectStep ==
    /\ pc = "read"
    /\ pc' = "threw"
    /\ failure' = StreamError("read_error")
    /\ UNCHANGED <<content, remaining, sink, sinkLog>>

ReadReject ==
    /\ ReadRejectStep
    /\ UNCHANGED managerVars
    /\ UNCHANGED chatVars
    /\ UNCHANGED otherVars

NextStream ==
    \/ \E body \in Bodies, onChunk \in Sinks : StreamCall(body, onChunk)
    \/ \E net \in Net : FetchSettle(net)
    \/ \E k \in 1..Len(remaining) : ReadValue(k)
    \/ ReadDone
    \/ ReadReject

SpecStream == InitStream /\ [][NextStream]_vars

\* ------------------------------------------ OllamaEnterpriseApp, ChatManager
\* chat turns a behaviour may begin
MaxTurns == 1
\* chatManager.sendMessage calls a behaviour of SpecCalls may issue
MaxCalls == 2
\* StorageManager operations a behaviour of SpecStorage may run
MaxStorageOps == 4
\* messages a stored conversation of SpecHistory may begin with
MaxHistory == 11

\* what the message-input field may hold: nothing, white space, a message
InputTexts == { <<>>, <<" ">>, <<"h", "i">> }

\* click on send-btn, Enter in message-input, Ctrl/Cmd+Enter on the document
TriggerKinds == {"click", "keypress", "shortcut"}

\* the options of provider-select that the model follows
SelectableProviders == {"ollama", "openai"}

\* bodies the server may answer a chat turn with: text and a completion
\* flag, text without any completion flag, a line that is not JSON
ChatBodies ==
    { Join(<< <<"{", "a", "}">>, <<"{", "b", "!", "}">> >>),
      Join(<< <<"{", "a", "}">>, <<"{", "b", "}">> >>),
      Join(<< <<"}", "{">>, <<"{", "!", "}">> >>) }

\* messages.slice(-n)
LastN(seq, n) ==
    IF n = 0 \/ Len(seq) <= n THEN seq ELSE SubSeq(seq, Len(seq) - n + 1, Len(seq))

\* storageManager.saveMessage(message): push and saveCurrentConversation
SaveMessage(messages, m) == LastN(Append(messages, m), MaxMessagesPerConversation)

UserMessage(text) ==
    [type |-> "user", content |-> text, conversationId |-> conversationId,
     provider |-> "undefined"]

\* provider: this.apiManager.getCurrentProvider()?.name
AssistantMessage(text) ==
    [type |-> "assistant", content |-> text, conversationId |-> conversationId,
     provider |-> IF Truthy(currentProvider) THEN currentProvider.name ELSE "undefined"]

\* a message group of the chat display
Entry(id, role, text, loading) ==
    [id |-> id, role |-> role, text |-> text, loading |-> loading]

\* content || (isLoading ? 'Thinking...' : '')
Placeholder == <<"Thinking...">>

ErrorText(msg) == <<"Error: ", msg>>

\* an updateMessage that leaves the loading class in place
UpdateMessage_KeepsLoading(d, id, text, isComplete) ==
    [i \in DOMAIN d |->
        IF d[i].id = id THEN [d[i] EXCEPT !.text = text] ELSE d[i]]

\* uiManager.updateMessage(messageId, content, isComplete); no element with
\* that id, no change
UpdateMessage(d, id, text, isComplete) ==
    [i \in DOMAIN d |->
        IF d[i].id = id
        THEN [d[i] EXCEPT !.text = text,
                          !.loading = IF isComplete THEN FALSE ELSE @]
        ELSE d[i]]

\* a sink that keeps the last chunk only
ChatSink_Overwrites(acc, chunk) ==
    IF ~chunk.isFinal /\ chunk.text # <<>> THEN chunk.text ELSE acc

\* (chunk, isComplete) => { if (!isComplete && chunk) accumulatedResponse += chunk }
ChatSink(acc, chunk) ==
    IF ~chunk.isFinal /\ chunk.text # <<>> THEN acc \o chunk.text ELSE acc

\* accumulatedResponse after the sink has taken the chunks in order
RECURSIVE Accumulate(_, _)
Accumulate(acc, chunks) ==
    IF chunks = <<>> THEN acc
    ELSE Accumulate(ChatSink(acc, Head(chunks)), Tail(chunks))

\* a handler that does not look at the flag
AlreadyGenerating_NoGate(flag) == FALSE

\* if (this.isGenerating) return;
AlreadyGenerating(flag) == flag

\* a disabled button gets no click and a disabled field no keypress; the
\* keydown listener of the document is always reached
TriggerArrives(kind) == kind = "shortcut" \/ ~inputDisabled

InitChat ==
    /\ configDefault = "ollama"
    /\ providers = Construct(configDefault).providers
    /\ currentProvider = Construct(configDefault).currentProvider
    /\ selected = Construct(configDefault).selected
    /\ setProviderCalled = FALSE
    /\ lastOp = NoOp
    /\ StreamIdle
    /\ ChatIdle
    /\ OtherIdle
    /\ enableStreaming \in BOOLEAN

\* init() gets past initializeAPI(): isInitialized, the welcome message,
\* updateGeneratingState(false)
AppInitDone ==
    /\ ~appInitialized
    /\ appInitialized' = TRUE
    /\ display' = Append(display, Entry(0, "system", <<"Welcome">>, FALSE))
    /\ inputDisabled' = FALSE
    /\ UNCHANGED <<appGenerating, appProvider, chatGenerating, chatPc, enableStreaming,
                   inputValue, nextId, botMessageId, accumulated, saveLog, stored,
                   conversationId, genTarget, lastError, lastTrigger, outstanding,
                   turns, turn>>
    /\ UNCHANGED managerVars
    /\ UNCHANGED streamVars
    /\ UNCHANGED otherVars

\* the value of message-input changes.  The disabled attribute keeps the
\* user from typing, not the value from being written.
SetInput(text) ==
    /\ text # inputValue
    /\ inputValue' = text
    /\ UNCHANGED <<appInitialized, appGenerating, appProvider, chatGenerating, chatPc,
                   enableStreaming, inputDisabled, display, nextId, botMessageId,
                   accumulated, saveLog, stored, conversationId, genTarget, lastError,
                   lastTrigger, outstanding, turns, turn>>
    /\ UNCHANGED managerVars
    /\ UNCHANGED streamVars
    /\ UNCHANGED otherVars

\* chatManager.sendMessage(message) up to its await of the 100 ms timer, as
\* called by handleSendMessage after isGenerating = true and the clearing of
\* the field.  The await of saveMessage gives way to no event.
BeginTurn(message) ==
    /\ appGenerating' = TRUE
    /\ inputValue' = <<>>
    /\ inputDisabled' = TRUE
    /\ display' = display \o << Entry(0, "user", message, FALSE),
                                Entry(nextId + 1, "bot", Placeholder, TRUE) >>
    /\ saveLog' = Append(saveLog, UserMessage(message))
    /\ stored' = SaveMessage(stored, UserMessage(message))
    /\ chatGenerating' = TRUE
    /\ nextId' = nextId + 1
    /\ botMessageId' = nextId + 1
    /\ chatPc' = "delay"
    /\ outstanding' = outstanding + 1
    /\ turns' = turns + 1
    /\ turn' = [message |-> message, saved |-> Len(saveLog)]
    /\ UNCHANGED <<appInitialized, appProvider, enableStreaming, accumulated,
                   conversationId, genTarget, lastError>>

\* handleSendMessage(), reached by one of the three triggers
HandleSendMessage(kind) ==
    /\ TriggerArrives(kind)
    /\ IF AlreadyGenerating(appGenerating)
       THEN /\ lastTrigger' = "busy"
            /\ UNCHANGED <<appInitialized, appGenerating, appProvider, chatGenerating,
                           chatPc, enableStreaming, inputValue, inputDisabled, display,
                           nextId, botMessageId, accumulated, saveLog, stored,
                           conversationId, genTarget, lastError, outstanding, turns, turn>>
       ELSE IF Trim(inputValue) = <<>>
       THEN /\ lastTrigger' = "empty"
            /\ UNCHANGED <<appInitialized, appGenerating, appProvider, chatGenerating,
                           chatPc, enableStreaming, inputValue, inputDisabled, display,
                           nextId, botMessageId, accumulated, saveLog, stored,
                           conversationId, genTarget, lastError, outstanding, turns, turn>>
       ELSE IF ~appInitialized
       THEN /\ lastTrigger' = "uninitialized"
            /\ lastError' = "Application is still initializing. Please wait..."
            /\ UNCHANGED <<appInitialized, appGenerating, appProvider, chatGenerating,
                           chatPc, enableStreaming, inputValue, inputDisabled, display,
                           nextId, botMessageId, accumulated, saveLog, stored,
                           conversationId, genTarget, outstanding, turns, turn>>
       ELSE IF chatGenerating
       \* chatManager.sendMessage returns at its own guard, and the finally of
       \* the handler runs
       THEN /\ lastTrigger' = "dropped"
            /\ inputValue' = <<>>
            /\ appGenerating' = FALSE
            /\ inputDisabled' = FALSE
            /\ UNCHANGED <<appInitialized, appProvider, chatGenerating, chatPc,
                           enableStreaming, display, nextId, botMessageId, accumulated,
                           saveLog, stored, conversationId, genTarget, lastError,
                           outstanding, turns, turn>>
       ELSE /\ turns < MaxTurns
            /\ lastTrigger' = "sent"
            /\ BeginTurn(Trim(inputValue))
    /\ UNCHANGED managerVars
    /\ UNCHANGED streamVars
    /\ UNCHANGED otherVars

\* handleProviderChange(): the select names a provider other than the
\* current one
HandleProviderChange(name) ==
    /\ name # appProvider
    /\ appProvider' = name
    /\ SetCurrentProviderStep(name)
    /\ UNCHANGED <<appInitialized, appGenerating, chatGenerating, chatPc,
                   enableStreaming, inputValue, inputDisabled, display, nextId,
                   botMessageId, accumulated, saveLog, stored, conversationId,
                   genTarget, lastError, lastTrigger, outstanding, turns, turn>>
    /\ UNCHANGED streamVars
    /\ UNCHANGED otherVars

\* 'conv_' + Date.now() + '_' + random: the ids made by
\* generateConversationId() are told from 'default', not from each other
GeneratedConversationId == "conv"

\* handleClearChat() with the confirmation given: a new conversation id, an
\* empty display, the current conversation removed from localStorage
HandleClearChat ==
    /\ conversationId' = GeneratedConversationId
    /\ display' = <<>>
    /\ stored' = <<>>
    /\ UNCHANGED <<appInitialized, appGenerating, appProvider, chatGenerating, chatPc,
                   enableStreaming, inputValue, inputDisabled, nextId, botMessageId,
                   accumulated, saveLog, genTarget, lastError, lastTrigger,
                   outstanding, turns, turn>>
    /\ UNCHANGED managerVars
    /\ UNCHANGED streamVars
    /\ UNCHANGED otherVars

\* a turn whose flags are reset on the success path only, without finally
TurnEnd_NoFinally(error) ==
    /\ chatGenerating' = (error /\ chatGenerating)
    /\ appGenerating' = (error /\ appGenerating)
    /\ inputDisabled' = (error /\ inputDisabled)
    /\ outstanding' = outstanding - 1
    /\ chatPc' = "idle"
    /\ lastError' = IF error THEN "Failed to generate response" ELSE lastError

\* the finally blocks of chatManager.sendMessage and of handleSendMessage;
\* after an error, the catch of sendMessage before them
TurnEnd(error) ==
    /\ chatGenerating' = FALSE
    /\ appGenerating' = FALSE
    /\ inputDisabled' = FALSE
    /\ outstanding' = outstanding - 1
    /\ chatPc' = "idle"
    /\ lastError' = IF error THEN "Failed to generate response" ELSE lastError

\* ChatManager.streamResponse as the provider call goes on: the sink takes
\* the chunks of the step; when the call has returned the message is marked
\* complete and saved, when it has thrown the message shows the error
ChatAfterStream(base, delivered) ==
    LET acc == Accumulate(base, delivered)
        shown == IF TextChunks(delivered) # <<>>
                 THEN UpdateMessage(display, botMessageId, acc, FALSE)
                 ELSE display
    IN  /\ accumulated' = acc
        /\ CASE pc' = "returned" ->
                  /\ display' = UpdateMessage(shown, botMessageId, acc, TRUE)
                  /\ saveLog' = Append(saveLog, AssistantMessage(acc))
                  /\ stored' = SaveMessage(stored, AssistantMessage(acc))
                  /\ TurnEnd(FALSE)
             [] pc' = "threw" ->
                  /\ display' = UpdateMessage(shown, botMessageId, ErrorText(failure'), TRUE)
                  /\ UNCHANGED <<saveLog, stored>>
                  /\ TurnEnd(TRUE)
             [] OTHER ->
                  /\ display' = shown
                  /\ UNCHANGED <<saveLog, stored, chatGenerating, appGenerating,
                                 inputDisabled, outstanding, chatPc, lastError>>
        /\ UNCHANGED <<appInitialized, appProvider, enableStreaming, inputValue, nextId,
                       botMessageId, conversationId, genTarget, lastTrigger, turns, turn>>

\* the 100 ms timer of sendMessage fires: the prompt is built and the
\* provider is called through the manager
ChatStartGeneration(body) ==
    /\ chatPc = "delay"
    /\ IF ~enableStreaming
       THEN /\ chatPc' = "generating"
            /\ genTarget' = currentProvider
            /\ UNCHANGED <<appInitialized, appGenerating, appProvider, chatGenerating,
                           enableStreaming, inputValue, inputDisabled, display, nextId,
                           botMessageId, accumulated, saveLog, stored, conversationId,
                           lastError, lastTrigger, outstanding, turns, turn>>
            /\ UNCHANGED streamVars
       ELSE IF currentProvider.kind = "provider" /\ ImplementsStreaming(currentProvider)
       THEN /\ StreamBegin(body, QuietSink)
            /\ chatPc' = "streaming"
            /\ accumulated' = <<>>
            /\ genTarget' = currentProvider
            /\ UNCHANGED <<appInitialized, appGenerating, appProvider, chatGenerating,
                           enableStreaming, inputValue, inputDisabled, display, nextId,
                           botMessageId, saveLog, stored, conversationId,
                           lastError, lastTrigger, outstanding, turns, turn>>
       ELSE /\ pc' = "threw"
            /\ failure' = StreamResponseCall(currentProvider, "p1", NoEnv).value
            /\ content' = <<>>
            /\ remaining' = <<>>
            /\ sink' = QuietSink
            /\ sinkLog' = <<>>
            /\ ChatAfterStream(<<>>, <<>>)
    /\ UNCHANGED managerVars
    /\ UNCHANGED otherVars

ChatFetchSettle(net) ==
    /\ chatPc = "streaming"
    /\ FetchSettleStep(net)
    /\ ChatAfterStream(accumulated, <<>>)
    /\ UNCHANGED managerVars
    /\ UNCHANGED otherVars

ChatReadValue(k) ==
    /\ chatPc = "streaming"
    /\ ReadValueStep(k)
    /\ ChatAfterStream(accumulated, SubSeq(sinkLog', Len(sinkLog) + 1, Len(sinkLog')))
    /\ UNCHANGED managerVars
    /\ UNCHANGED otherVars

ChatReadDone ==
    /\ chatPc = "streaming"
    /\ ReadDoneStep
    /\ ChatAfterStream(accumulated, <<>>)
    /\ UNCHANGED managerVars
    /\ UNCHANGED otherVars

ChatReadReject ==
    /\ chatPc = "streaming"
    /\ ReadRejectStep
    /\ ChatAfterStream(accumulated, <<>>)
    /\ UNCHANGED managerVars
    /\ UNCHANGED otherVars

\* ChatManager.generateSingleResponse when the generateResponse call settles
ChatGenerateSettle(env) ==
    /\ chatPc = "generating"
    /\ LET e == GenerateResponseCall(genTarget, "p1", env) IN
         IF e.outcome = "return"
         THEN /\ display' = UpdateMessage(display, botMessageId, <<e.value>>, TRUE)
              /\ saveLog' = Append(saveLog, AssistantMessage(<<e.value>>))
              /\ stored' = SaveMessage(stored, AssistantMessage(<<e.value>>))
              /\ TurnEnd(FALSE)
         ELSE /\ display' = UpdateMessage(display, botMessageId, ErrorText(e.value), TRUE)
              /\ UNCHANGED <<saveLog, stored>>
              /\ TurnEnd(TRUE)
    /\ UNCHANGED <<appInitialized, appProvider, enableStreaming, inputValue, nextId,
                   botMessageId, accumulated, conversationId, genTarget, lastTrigger,
                   turns, turn>>
    /\ UNCHANGED managerVars
    /\ UNCHANGED streamVars
    /\ UNCHANGED otherVars

NextChat ==
    \/ AppInitDone
    \/ \E text \in InputTexts : SetInput(text)
    \/ \E kind \in TriggerKinds : HandleSendMessage(kind)
    \/ \E name \in SelectableProviders : HandleProviderChange(name)
    \/ HandleClearChat
    \/ \E body \in ChatBodies : ChatStartGeneration(body)
    \/ \E net \in Net : ChatFetchSettle(net)
    \/ \E k \in 1..Len(remaining) : ChatReadValue(k)
    \/ ChatReadDone
    \/ ChatReadReject
    \/ \E env \in ProbeEnvs : ChatGenerateSettle(env)

SpecChat == InitChat /\ [][NextChat]_vars

\* ------------------------------------ provider selection of the application
\* the application after construction with any DEFAULT_PROVIDER
InitProvider ==
    /\ configDefault \in Names
    /\ providers = Construct(configDefault).providers
    /\ currentProvider = Construct(configDefault).currentProvider
    /\ selected = Construct(configDefault).selected
    /\ setProviderCalled = FALSE
    /\ lastOp = NoOp
    /\ StreamIdle
    /\ ChatIdle
    /\ OtherIdle
    /\ enableStreaming = TRUE

\* change events of provider-select, with any value of the select
NextProvider ==
    \E name \in Names : HandleProviderChange(name)

SpecProvider == InitProvider /\ [][NextProvider]_vars

\* ------------------------------------------------- chat turns that settle
\* the timer of sendMessage fires, and the provider call goes on until it
\* has settled
ChatProgress ==
    \/ \E body \in ChatBodies : ChatStartGeneration(body)
    \/ \E net \in Net : ChatFetchSettle(net)
    \/ \E k \in 1..Len(remaining) : ChatReadValue(k)
    \/ ChatReadDone
    \/ ChatReadReject
    \/ \E env \in ProbeEnvs : ChatGenerateSettle(env)

\* the application constructed with either provider the model follows
InitSettles ==
    /\ configDefault \in SelectableProviders
    /\ providers = Construct(configDefault).providers
    /\ currentProvider = Construct(configDefault).currentProvider
    /\ selected = Construct(configDefault).selected
    /\ setProviderCalled = FALSE
    /\ lastOp = NoOp
    /\ StreamIdle
    /\ ChatIdle
    /\ OtherIdle
    /\ enableStreaming \in BOOLEAN

\* the events that reach the flags: initialisation, the field, the send
\* triggers, and the progress of the turn
NextSettles ==
    \/ AppInitDone
    \/ \E text \in InputTexts : SetInput(text)
    \/ \E kind \in TriggerKinds : HandleSendMessage(kind)
    \/ ChatProgress

SpecChatSettles == InitSettles /\ [][NextSettles]_vars /\ WF_vars(ChatProgress)

\* ------------------------------------ ChatManager.sendMessage, call by call
\* Each call of chatManager.sendMessage is followed through its awaits.  The
\* continuation of `await storageManager.saveMessage(...)` is a microtask: it
\* runs after the code that issued the call has finished and before any timer
\* or network event, in the order the calls were issued.  ENABLE_STREAMING is
\* off, so a generation is one generateResponse call of the provider.

Call(callPc, message, id, target) ==
    [pc |-> callPc, message |-> message, botMessageId |-> id, target |-> target]

\* the calls that are past the guard and have not finished
Running == {i \in DOMAIN calls : calls[i].pc \in {"awaitSave", "delay", "generating"}}

Resuming == {i \in DOMAIN calls : calls[i].pc = "awaitSave"}

InitCalls ==
    /\ configDefault = "ollama"
    /\ providers = Construct(configDefault).providers
    /\ currentProvider = Construct(configDefault).currentProvider
    /\ selected = Construct(configDefault).selected
    /\ setProviderCalled = FALSE
    /\ lastOp = NoOp
    /\ StreamIdle
    /\ ChatIdle
    /\ OtherIdle
    /\ enableStreaming = FALSE

\* sendMessage(message) up to `await this.storageManager.saveMessage(...)`
CallSendMessage(message) ==
    /\ Len(calls) < MaxCalls
    /\ IF message = <<>> \/ chatGenerating
       THEN /\ calls' = Append(calls, Call("returned", message, 0, Null))
            /\ UNCHANGED <<display, saveLog, stored>>
       ELSE /\ calls' = Append(calls, Call("awaitSave", message, 0, Null))
            /\ display' = Append(display, Entry(0, "user", message, FALSE))
            /\ saveLog' = Append(saveLog, UserMessage(message))
            /\ stored' = SaveMessage(stored, UserMessage(message))
    /\ UNCHANGED <<appInitialized, appGenerating, appProvider, chatGenerating, chatPc,
                   enableStreaming, inputValue, inputDisabled, nextId, botMessageId,
                   accumulated, conversationId, genTarget, lastError, lastTrigger,
                   outstanding, turns, turn>>
    /\ UNCHANGED managerVars
    /\ UNCHANGED streamVars
    /\ UNCHANGED storageVars
    /\ UNCHANGED historyVars
    /\ UNCHANGED clientVars

\* from the await of saveMessage to the await of the 100 ms timer
CallResume(i) ==
    /\ i \in Resuming
    /\ \A j \in Resuming : i <= j
    /\ chatGenerating' = TRUE
    /\ inputDisabled' = TRUE
    /\ display' = Append(display, Entry(nextId + 1, "bot", Placeholder, TRUE))
    /\ nextId' = nextId + 1
    /\ calls' = [calls EXCEPT ![i].pc = "delay", ![i].botMessageId = nextId + 1]
    /\ UNCHANGED <<appInitialized, appGenerating, appProvider, chatPc, enableStreaming,
                   inputValue, botMessageId, accumulated, saveLog, stored,
                   conversationId, genTarget, lastError, lastTrigger, outstanding,
                   turns, turn>>
    /\ UNCHANGED managerVars
    /\ UNCHANGED streamVars
    /\ UNCHANGED storageVars
    /\ UNCHANGED historyVars
    /\ UNCHANGED clientVars

\* the timer fires: the context is built and generateSingleResponse calls
\* apiManager.generateResponse
CallStart(i) ==
    /\ i \in DOMAIN calls
    /\ calls[i].pc = "delay"
    /\ Resuming = {}
    /\ calls' = [calls EXCEPT ![i].pc = "generating", ![i].target = currentProvider]
    /\ UNCHANGED chatVars
    /\ UNCHANGED managerVars
    /\ UNCHANGED streamVars
    /\ UNCHANGED storageVars
    /\ UNCHANGED historyVars
    /\ UNCHANGED clientVars

\* the generateResponse call settles: generateSingleResponse, then the catch
\* and the finally of sendMessage
CallSettle(i, env) ==
    /\ i \in DOMAIN calls
    /\ calls[i].pc = "generating"
    /\ Resuming = {}
    /\ LET e == GenerateResponseCall(calls[i].target, "p1", env) IN
         IF e.outcome = "return"
         THEN /\ display' = UpdateMessage(display, calls[i].botMessageId, <<e.value>>, TRUE)
              /\ saveLog' = Append(saveLog, AssistantMessage(<<e.value>>))
              /\ stored' = SaveMessage(stored, AssistantMessage(<<e.value>>))
              /\ UNCHANGED lastError
         ELSE /\ display' = UpdateMessage(display, calls[i].botMessageId,
                                          ErrorText(e.value), TRUE)
              /\ lastError' = "Failed to generate response"
              /\ UNCHANGED <<saveLog, stored>>
    /\ chatGenerating' = FALSE
    /\ inputDisabled' = FALSE
    /\ calls' = [calls EXCEPT ![i].pc = "done"]
    /\ UNCHANGED <<appInitialized, appGenerating, appProvider, chatPc, enableStreaming,
                   inputValue, nextId, botMessageId, accumulated, conversationId,
                   genTarget, lastTrigger, outstanding, turns, turn>>
    /\ UNCHANGED managerVars
    /\ UNCHANGED streamVars
    /\ UNCHANGED storageVars
    /\ UNCHANGED historyVars
    /\ UNCHANGED clientVars

NextCalls ==
    \/ \E message \in InputTexts : CallSendMessage(message)
    \/ \E i \in DOMAIN calls : CallResume(i)
    \/ \E i \in DOMAIN calls : CallStart(i)
    \/ \E i \in DOMAIN calls, env \in ProbeEnvs : CallSettle(i, env)

SpecCalls == InitCalls /\ [][NextCalls]_vars

\* ---------------------------------------------------------- StorageManager
\* localStorage holds strings.  JSON.stringify of a value made of strings,
\* numbers, arrays and plain objects is a text that JSON.parse turns back into
\* the value; the text of null parses to null.
Stringify(value) == [json |-> value]

Parse(text) == text.json

\* the messages and message arrays the callers pass
StorageMessages == {"m1", "m2"}

MessageLists == {<<>>, <<"m1", "m2", "m1">>}

\* MAX_MESSAGES_PER_CONVERSATION as configured: the default and a small value
MaxMessagesSettings == {2, MaxMessagesPerConversation}

\* the conversation object saveCurrentConversation writes
Conversation(id, now, messages, count) ==
    [id |-> id, timestamp |-> now, messages |-> messages, messageCount |-> count]

\* validateConversation(conversation); messages is an array in every
\* conversation the application writes
ValidateConversation(conversation) ==
    /\ conversation # Null
    /\ conversation.id # 0
    /\ conversation.timestamp # 0

LoadCurrentConversation(l) ==
    IF l.current # Null
    THEN IF ValidateConversation(Parse(l.current)) THEN Parse(l.current) ELSE Null
    ELSE Null

\* getConversationHistory(conversationId): the argument is not used
GetConversationHistory(l, id) ==
    IF LoadCurrentConversation(l) # Null THEN LoadCurrentConversation(l).messages ELSE <<>>

LoadConversationHistory(l) ==
    IF l.conversations # Null
    THEN SelectSeq(Parse(l.conversations), ValidateConversation)
    ELSE <<>>

\* getDefaultSettings(), of which the model keeps two keys
DefaultSettings == [model |-> "llama3.2:1b", provider |-> "ollama"]

SettingsPatches == {[model |-> "mistral"], [provider |-> "openai"]}

LoadSettings(l) ==
    IF l.settings # Null THEN Parse(l.settings) ELSE DefaultSettings

\* { ...currentSettings, ...settings }
Merge(a, b) ==
    [k \in DOMAIN a \cup DOMAIN b |-> IF k \in DOMAIN b THEN b[k] ELSE a[k]]

\* current?.id || this.generateConversationId(); a generated id is new, as
\* the time of the call is
GetCurrentConversationId(l, now) ==
    IF LoadCurrentConversation(l) # Null THEN LoadCurrentConversation(l).id ELSE now

\* what an operation leaves in localStorage and what it returns
Outcome(l, result) == [local |-> l, result |-> result]

\* a saveCurrentConversation that keeps the oldest messages
SaveCurrentConversation_KeepsOldest(l, messages, max, now, accept) ==
    IF accept
    THEN Outcome([l EXCEPT !.current =
                     Stringify(Conversation(GetCurrentConversationId(l, now), now,
                                            SubSeq(messages, 1, IF Len(messages) <= max
                                                                THEN Len(messages) ELSE max),
                                            Len(messages)))],
                 TRUE)
    ELSE Outcome(l, FALSE)

\* saveCurrentConversation(messages); localStorage accepts the write or
\* setItem throws, which the catch turns into false
SaveCurrentConversation(l, messages, max, now, accept) ==
    IF accept
    THEN Outcome([l EXCEPT !.current =
                     Stringify(Conversation(GetCurrentConversationId(l, now), now,
                                            LastN(messages, max), Len(messages)))],
                 TRUE)
    ELSE Outcome(l, FALSE)

\* saveMessage(message): true whatever saveCurrentConversation returned
StorageSaveMessage(l, message, max, now, accept) ==
    LET current == LoadCurrentConversation(l)
        messages == IF current # Null THEN Append(current.messages, message)
                    ELSE <<message>>
    IN  Outcome(SaveCurrentConversation(l, messages, max, now, accept).local, TRUE)

ClearCurrentConversation(l) == Outcome([l EXCEPT !.current = Null], TRUE)

\* saveConversationToHistory(messages): the new conversation goes first; the
\* list stays far below maxConversations
SaveConversationToHistory(l, messages, max, now, accept) ==
    IF accept
    THEN Outcome([l EXCEPT !.conversations =
                     Stringify(<<Conversation(now, now, LastN(messages, max), Len(messages))>>
                               \o LoadConversationHistory(l))],
                 now)
    ELSE Outcome(l, Null)

ClearAllConversations(l) ==
    Outcome([l EXCEPT !.conversations = Null, !.current = Null], TRUE)

SaveSettings(l, settings, accept) ==
    IF accept
    THEN Outcome([l EXCEPT !.settings = Stringify(Merge(LoadSettings(l), settings))], TRUE)
    ELSE Outcome(l, FALSE)

\* exportData(): exportDate and version are left out
ExportData(l) ==
    Stringify([conversations |-> LoadConversationHistory(l),
               currentConversation |-> LoadCurrentConversation(l),
               settings |-> LoadSettings(l)])

\* importData(jsonData): `accepted` setItem calls succeed, the next one throws
ImportData(l, jsonData, accepted) ==
    LET data == Parse(jsonData)
        writes == << [key |-> "conversations", value |-> data.conversations],
                     [key |-> "current", value |-> data.currentConversation],
                     [key |-> "settings", value |-> data.settings] >>
        \* the writes importData attempts: conversations is an array, the
        \* current conversation is written when it is not null, the settings
        \* object is always truthy
        attempted == SelectSeq(writes, LAMBDA w : w.key # "current" \/ w.value # Null)
        done == SubSeq(attempted, 1, IF accepted < Len(attempted) THEN accepted
                                     ELSE Len(attempted))
    IN  Outcome([k \in DOMAIN l |->
                    IF \E i \in DOMAIN done : done[i].key = k
                    THEN Stringify(done[CHOOSE i \in DOMAIN done : done[i].key = k].value)
                    ELSE l[k]],
                accepted >= Len(attempted))

InitStorage ==
    /\ configDefault = "ollama"
    /\ providers = Construct(configDefault).providers
    /\ currentProvider = Construct(configDefault).currentProvider
    /\ selected = Construct(configDefault).selected
    /\ setProviderCalled = FALSE
    /\ lastOp = NoOp
    /\ StreamIdle
    /\ ChatIdle
    /\ enableStreaming = TRUE
    /\ calls = <<>>
    /\ local = [conversations |-> Null, current |-> Null, settings |-> Null]
    /\ maxMessagesPerConversation \in MaxMessagesSettings
    /\ storageOps = 0
    /\ requested = <<>>
    /\ savedSeq = <<>>
    /\ exported = Null
    /\ lastStorageOp = [op |-> "none", result |-> Null]
    /\ HistoryIdle
    /\ ClientIdle

\* one operation of the storage manager, `out` being what it leaves and returns
StorageStep(op, out) ==
    /\ storageOps < MaxStorageOps
    /\ storageOps' = storageOps + 1
    /\ local' = out.local
    /\ lastStorageOp' = [op |-> op, result |-> out.result]
    /\ UNCHANGED maxMessagesPerConversation
    /\ UNCHANGED calls
    /\ UNCHANGED managerVars
    /\ UNCHANGED streamVars
    /\ UNCHANGED chatVars
    /\ UNCHANGED historyVars
    /\ UNCHANGED clientVars

DoSaveMessage(message, accept) ==
    /\ StorageStep("saveMessage",
                   StorageSaveMessage(local, message, maxMessagesPerConversation,
                                      storageOps + 1, accept))
    /\ requested' = Append(requested, message)
    /\ savedSeq' = IF accept THEN Append(savedSeq, message) ELSE savedSeq
    /\ UNCHANGED exported

DoSaveCurrentConversation(messages, accept) ==
    /\ StorageStep("saveCurrentConversation",
                   SaveCurrentConversation(local, messages, maxMessagesPerConversation,
                                           storageOps + 1, accept))
    /\ requested' = messages
    /\ savedSeq' = IF accept THEN messages ELSE savedSeq
    /\ UNCHANGED exported

DoClearCurrentConversation ==
    /\ StorageStep("clearCurrentConversation", ClearCurrentConversation(local))
    /\ requested' = <<>>
    /\ savedSeq' = <<>>
    /\ UNCHANGED exported

DoSaveConversationToHistory(messages, accept) ==
    /\ StorageStep("saveConversationToHistory",
                   SaveConversationToHistory(local, messages, maxMessagesPerConversation,
                                             storageOps + 1, accept))
    /\ UNCHANGED <<requested, savedSeq, exported>>

DoClearAllConversations ==
    /\ StorageStep("clearAllConversations", ClearAllConversations(local))
    /\ requested' = <<>>
    /\ savedSeq' = <<>>
    /\ UNCHANGED exported

DoSaveSettings(settings, accept) ==
    /\ StorageStep("saveSettings", SaveSettings(local, settings, accept))
    /\ UNCHANGED <<requested, savedSeq, exported>>

DoExportData ==
    /\ StorageStep("exportData", Outcome(local, ExportData(local)))
    /\ exported' = ExportData(local)
    /\ UNCHANGED <<requested, savedSeq>>

\* importData(e) with the string the last exportData() returned
DoImportData(accepted) ==
    /\ exported # Null
    /\ StorageStep("importData", ImportData(local, exported, accepted))
    /\ requested' = GetConversationHistory(local', 0)
    /\ savedSeq' = GetConversationHistory(local', 0)
    /\ UNCHANGED exported

NextStorage ==
    \/ \E message \in StorageMessages, accept \in BOOLEAN : DoSaveMessage(message, accept)
    \/ \E messages \in MessageLists, accept \in BOOLEAN :
          DoSaveCurrentConversation(messages, accept)
    \/ DoClearCurrentConversation
    \/ \E messages \in MessageLists, accept \in BOOLEAN :
          DoSaveConversationToHistory(messages, accept)
    \/ DoClearAllConversations
    \/ \E settings \in SettingsPatches, accept \in BOOLEAN : DoSaveSettings(settings, accept)
    \/ DoExportData
    \/ \E accepted \in 0..3 : DoImportData(accepted)

SpecStorage == InitStorage /\ [][NextStorage]_vars

\* ------------------------------------- ChatManager and the stored history
\* the messages ChatManager saves: user and assistant turns in alternation
HistoryMessage(k, id) ==
    [type |-> IF k % 2 = 1 THEN "user" ELSE "assistant",
     content |-> IF k % 2 = 1 THEN <<"q">> ELSE <<"a">>,
     conversationId |-> id]

ConversationIds == {"default", "other"}

HistoryPrompts == {<<"h", "i">>, <<"q">>}

\* `10 // Last 10 messages`, the second argument of getConversationHistory
HistoryLimit == 10

ClearedNotice == "Chat history cleared"

\* addUserMessageFromHistory / addBotMessageFromHistory / addSystemMessage for
\* each message of the history, by its type
RECURSIVE HistoryEntries(_)
HistoryEntries(history) ==
    IF history = <<>> THEN <<>>
    ELSE LET m == Head(history)
             rest == HistoryEntries(Tail(history))
         IN  IF m.type = "user" THEN <<Entry(0, "user", m.content, FALSE)>> \o rest
             ELSE IF m.type = "assistant" THEN <<Entry(0, "bot", m.content, FALSE)>> \o rest
             ELSE IF m.type = "system" THEN <<Entry(0, "system", m.content, FALSE)>> \o rest
             ELSE rest

\* the two filters of buildConversationContext
InContext(m, currentPrompt) ==
    /\ m.content # <<>>
    /\ Trim(m.content) # <<>>
    /\ m.content # currentPrompt
    /\ \A i \in DOMAIN m.content : m.content[i] # ClearedNotice

\* `${role}: ${content}`; the contents of the model stay below the 500
\* characters at which a content is cut
ContextLine(m) ==
    [role |-> IF m.type = "user" THEN "Human" ELSE "Assistant", content |-> m.content]

RECURSIVE ContextLines(_, _)
ContextLines(history, currentPrompt) ==
    IF history = <<>> THEN <<>>
    ELSE (IF InContext(Head(history), currentPrompt)
          THEN <<ContextLine(Head(history))>> ELSE <<>>)
         \o ContextLines(Tail(history), currentPrompt)

\* the prompt: the lines under CONVERSATION HISTORY and the text after USER:
Prompt(lines, currentPrompt) == [history |-> lines, user |-> currentPrompt]

\* buildConversationContext(currentPrompt): with no line to show the prompt
\* is currentPrompt alone; the prompts of the model stay below
\* MAX_MESSAGE_LENGTH
BuildConversationContext(l, id, currentPrompt, memory) ==
    IF ~memory THEN Prompt(<<>>, currentPrompt)
    ELSE Prompt(ContextLines(GetConversationHistory(l, id), currentPrompt), currentPrompt)

\* the stored conversation of an earlier session: n messages saved under
\* 'default'
StoredHistory(n) ==
    IF n = 0 THEN Null
    ELSE Stringify(Conversation(1, 1, [k \in 1..n |-> HistoryMessage(k, "default")], n))

\* the chat manager as constructed, init() having loaded the stored history
InitHistory ==
    /\ configDefault = "ollama"
    /\ providers = Construct(configDefault).providers
    /\ currentProvider = Construct(configDefault).currentProvider
    /\ selected = Construct(configDefault).selected
    /\ setProviderCalled = FALSE
    /\ lastOp = NoOp
    /\ StreamIdle
    /\ enableStreaming = TRUE
    /\ calls = <<>>
    /\ \E n \in 0..MaxHistory :
          /\ local = [conversations |-> Null, current |-> StoredHistory(n), settings |-> Null]
          /\ display = HistoryEntries(GetConversationHistory(local, "default"))
    /\ maxMessagesPerConversation = MaxMessagesPerConversation
    /\ storageOps = 0
    /\ requested = <<>>
    /\ savedSeq = <<>>
    /\ exported = Null
    /\ lastStorageOp = [op |-> "none", result |-> Null]
    /\ conversationMemory \in BOOLEAN
    /\ context = Null
    /\ toast = "none"
    /\ historyOp = [op |-> "none", confirmed |-> FALSE]
    /\ ClientIdle
    /\ appInitialized = FALSE
    /\ appGenerating = FALSE
    /\ appProvider = "ollama"
    /\ chatGenerating = FALSE
    /\ chatPc = "idle"
    /\ inputValue = <<>>
    /\ inputDisabled = FALSE
    /\ nextId = 0
    /\ botMessageId = 0
    /\ accumulated = <<>>
    /\ saveLog = <<>>
    /\ stored = <<>>
    /\ conversationId = "default"
    /\ genTarget = Null
    /\ lastError = "none"
    /\ lastTrigger = NoTrigger
    /\ outstanding = 0
    /\ turns = 0
    /\ turn = NoTurn

\* what the operations of SpecHistory leave alone
HistoryFrame ==
    /\ UNCHANGED <<appInitialized, appGenerating, appProvider, chatGenerating, chatPc,
                   enableStreaming, inputValue, inputDisabled, nextId, botMessageId,
                   accumulated, saveLog, stored, genTarget, lastError, lastTrigger,
                   outstanding, turns, turn>>
    /\ UNCHANGED <<maxMessagesPerConversation, storageOps, requested, savedSeq,
                   exported, lastStorageOp, conversationMemory, calls>>
    /\ UNCHANGED managerVars
    /\ UNCHANGED streamVars
    /\ UNCHANGED clientVars

\* chatManager.switchConversation(conversationId)
SwitchConversation(id) ==
    /\ conversationId' = id
    /\ display' = HistoryEntries(GetConversationHistory(local, id))
    /\ historyOp' = [op |-> "switchConversation", confirmed |-> FALSE]
    /\ UNCHANGED <<local, context, toast>>
    /\ HistoryFrame

\* chatManager.buildConversationContext(currentPrompt)
BuildContext(currentPrompt) ==
    /\ context' = BuildConversationContext(local, conversationId, currentPrompt,
                                           conversationMemory)
    /\ historyOp' = [op |-> "buildConversationContext", confirmed |-> FALSE]
    /\ UNCHANGED <<local, conversationId, display, toast>>
    /\ HistoryFrame

\* chatManager.clearChat(): storageManager has no clearConversation, the call
\* throws a TypeError and the catch shows the error
ClearChat(confirmed) ==
    /\ toast' = IF confirmed THEN "Failed to clear chat history" ELSE toast
    /\ historyOp' = [op |-> "clearChat", confirmed |-> confirmed]
    /\ UNCHANGED <<local, conversationId, display, context>>
    /\ HistoryFrame

\* app.handleClearChat(), with the toast it shows
ConfirmClearChat(confirmed) ==
    /\ IF confirmed
       THEN /\ conversationId' = GeneratedConversationId
            /\ display' = <<>>
            /\ local' = ClearCurrentConversation(local).local
            /\ toast' = "Conversation cleared"
       ELSE UNCHANGED <<conversationId, display, local, toast>>
    /\ historyOp' = [op |-> "handleClearChat", confirmed |-> confirmed]
    /\ UNCHANGED context
    /\ HistoryFrame

NextHistory ==
    \/ \E id \in ConversationIds : SwitchConversation(id)
    \/ \E currentPrompt \in HistoryPrompts : BuildContext(currentPrompt)
    \/ \E confirmed \in BOOLEAN : ClearChat(confirmed)
    \/ \E confirmed \in BOOLEAN : ConfirmClearChat(confirmed)

SpecHistory == InitHistory /\ [][NextHistory]_vars

\* ------------------------------ the single-file client OllamaEnterpriseChat
\* The class is given in full in README.md.  Its generateResponse reads the
\* stream with the loop of OllamaProvider.streamResponse, updateMessage
\* standing where onChunk stands and `if (data.done) return` ending it.

\* `if (this.conversationHistory.length > 100) ... slice(-100)`
ClientHistoryLimit == 100

\* lengths of the history loadChatHistory finds at construction
ClientPriorLengths == {0, ClientHistoryLimit - 1}

HistoryItem(sender, text) == [sender |-> sender, content |-> text]

\* saveMessageToHistory(sender, content): the new conversationHistory, which
\* is also what setItem writes
SaveMessageToHistory(history, sender, text) ==
    LastN(Append(history, HistoryItem(sender, text)), ClientHistoryLimit)

\* the text chunks of one read, each followed by updateMessage(messageId,
\* accumulatedResponse), which saves to the history
RECURSIVE ClientDeliver(_, _, _)
ClientDeliver(history, acc, chunks) ==
    IF chunks = <<>> THEN [history |-> history, acc |-> acc]
    ELSE IF ~Head(chunks).isFinal /\ Head(chunks).text # <<>>
    THEN ClientDeliver(SaveMessageToHistory(history, "AI Assistant",
                                            acc \o Head(chunks).text),
                       acc \o Head(chunks).text, Tail(chunks))
    ELSE ClientDeliver(history, acc, Tail(chunks))

\* throw new Error(`Failed to generate response: ${error.message}`)
ClientError == "Failed to generate response"

\* restoreChatMessages(): the messages of the loaded history, by sender
RestoredEntries(history) ==
    [i \in DOMAIN history |->
        Entry(0, IF history[i].sender = "You" THEN "user"
                 ELSE IF history[i].sender = "System" THEN "system" ELSE "bot",
              history[i].content, FALSE)]

InitClient ==
    /\ configDefault = "ollama"
    /\ providers = Construct(configDefault).providers
    /\ currentProvider = Construct(configDefault).currentProvider
    /\ selected = Construct(configDefault).selected
    /\ setProviderCalled = FALSE
    /\ lastOp = NoOp
    /\ StreamIdle
    /\ enableStreaming = TRUE
    /\ calls = <<>>
    /\ StorageIdle
    /\ HistoryIdle
    /\ clientConnected \in BOOLEAN
    /\ clientGenerating = FALSE
    /\ \E n \in ClientPriorLengths :
          clientHistory = [i \in 1..n |-> HistoryItem("System", <<"o", "l", "d">>)]
    /\ clientStored = IF clientHistory = <<>> THEN Null ELSE Stringify(clientHistory)
    /\ display = RestoredEntries(clientHistory)
    /\ appInitialized = FALSE
    /\ appGenerating = FALSE
    /\ appProvider = "ollama"
    /\ chatGenerating = FALSE
    /\ chatPc = "idle"
    /\ inputValue = <<>>
    /\ inputDisabled = ~clientConnected
    /\ nextId = 0
    /\ botMessageId = 0
    /\ accumulated = <<>>
    /\ saveLog = <<>>
    /\ stored = <<>>
    /\ conversationId = "default"
    /\ genTarget = Null
    /\ lastError = "none"
    /\ lastTrigger = NoTrigger
    /\ outstanding = 0
    /\ turns = 0
    /\ turn = NoTurn

\* what the steps of the client leave alone
ClientFrame ==
    /\ UNCHANGED <<appInitialized, appGenerating, appProvider, chatGenerating, chatPc,
                   enableStreaming, nextId, saveLog, stored, conversationId, genTarget,
                   outstanding>>
    /\ UNCHANGED <<calls, storageVars, historyVars, clientConnected>>
    /\ UNCHANGED managerVars

\* the message field is edited; the field is disabled unless connected and idle
ClientSetInput(text) ==
    /\ ~inputDisabled
    /\ inputValue' = text
    /\ UNCHANGED <<inputDisabled, display, botMessageId, accumulated, lastError,
                   lastTrigger, turns, turn, clientGenerating, clientHistory,
                   clientStored>>
    /\ UNCHANGED streamVars
    /\ ClientFrame

\* sendMessage() up to the await of fetch in generateResponse
ClientSendMessage(body) ==
    LET message == Trim(inputValue) IN
    /\ IF message = <<>> \/ ~clientConnected \/ clientGenerating \/ turns >= MaxTurns
       THEN /\ lastTrigger' = "dropped"
            /\ UNCHANGED <<inputValue, inputDisabled, display, botMessageId, accumulated,
                           turns, turn, clientGenerating, clientHistory, clientStored>>
            /\ UNCHANGED streamVars
       ELSE /\ lastTrigger' = "sent"
            /\ display' = display \o << Entry(0, "user", message, FALSE),
                                        Entry(Len(display) + 2, "bot", Placeholder, TRUE) >>
            /\ botMessageId' = Len(display) + 2
            /\ clientHistory' = SaveMessageToHistory(clientHistory, "You", message)
            /\ clientStored' = Stringify(clientHistory')
            /\ inputValue' = <<>>
            /\ clientGenerating' = TRUE
            /\ inputDisabled' = TRUE
            /\ accumulated' = <<>>
            /\ turns' = turns + 1
            /\ turn' = [message |-> message, saved |-> Len(clientHistory')]
            /\ StreamBegin(body, QuietSink)
    /\ UNCHANGED lastError
    /\ ClientFrame

\* the catch and the finally of sendMessage once generateResponse has settled
ClientSettled(shown, history) ==
    CASE pc' = "returned" ->
           /\ display' = shown
           /\ clientHistory' = history
           /\ clientGenerating' = FALSE
           /\ inputDisabled' = FALSE
           /\ UNCHANGED lastError
      [] pc' = "threw" ->
           /\ display' = UpdateMessage(shown, botMessageId, ErrorText(failure'), TRUE)
           /\ clientHistory' = SaveMessageToHistory(history, "AI Assistant",
                                                    ErrorText(failure'))
           /\ clientGenerating' = FALSE
           /\ inputDisabled' = FALSE
           /\ lastError' = "Failed to generate response"
      [] OTHER ->
           /\ display' = shown
           /\ clientHistory' = history
           /\ UNCHANGED <<clientGenerating, inputDisabled, lastError>>

\* await fetch(...) settles; if (!response.ok) throw
ClientFetchSettle(net) ==
    /\ clientGenerating
    /\ pc = "fetch"
    /\ IF net = "ok"
       THEN pc' = "read" /\ failure' = failure
       ELSE pc' = "threw" /\ failure' = ClientError
    /\ ClientSettled(display, clientHistory)
    /\ clientStored' = Stringify(clientHistory')
    /\ UNCHANGED <<content, remaining, sink, sinkLog>>
    /\ UNCHANGED <<inputValue, botMessageId, accumulated, lastTrigger, turns, turn>>
    /\ ClientFrame

\* await reader.read() gives the next k bytes
ClientReadValue(k) ==
    /\ clientGenerating
    /\ ReadValueStep(k)
    /\ LET delivered == SubSeq(sinkLog', Len(sinkLog) + 1, Len(sinkLog'))
           d == ClientDeliver(clientHistory, accumulated, delivered)
       IN  /\ accumulated' = d.acc
           /\ ClientSettled(IF TextChunks(delivered) # <<>>
                            THEN UpdateMessage(display, botMessageId, d.acc, TRUE)
                            ELSE display,
                            d.history)
    /\ clientStored' = Stringify(clientHistory')
    /\ UNCHANGED <<inputValue, botMessageId, lastTrigger, turns, turn>>
    /\ ClientFrame

\* await reader.read() gives {done: true}
ClientReadDone ==
    /\ clientGenerating
    /\ ReadDoneStep
    /\ ClientSettled(display, clientHistory)
    /\ UNCHANGED clientStored
    /\ UNCHANGED <<inputValue, botMessageId, accumulated, lastTrigger, turns, turn>>
    /\ ClientFrame

\* await reader.read() rejects
ClientReadReject ==
    /\ clientGenerating
    /\ pc = "read"
    /\ pc' = "threw"
    /\ failure' = ClientError
    /\ ClientSettled(display, clientHistory)
    /\ clientStored' = Stringify(clientHistory')
    /\ UNCHANGED <<content, remaining, sink, sinkLog>>
    /\ UNCHANGED <<inputValue, botMessageId, accumulated, lastTrigger, turns, turn>>
    /\ ClientFrame

NextClient ==
    \/ \E text \in InputTexts : ClientSetInput(text)
    \/ \E body \in ChatBodies : ClientSendMessage(body)
    \/ \E net \in Net : ClientFetchSettle(net)
    \/ \E k \in 1..Len(remaining) : ClientReadValue(k)
    \/ ClientReadDone
    \/ ClientReadReject

SpecClient == InitClient /\ [][NextClient]_vars

\* ================================================================ claims
IsForwarded == lastOp.op \in ForwardingOps

IsSetProvider == lastOp.op \in {"setProvider", "setCurrentProvider"}

\* C1: in every reachable state currentProvider is null or one of the
\* provider instances held in the registry, whatever names were given to
\* setProvider/setCurrentProvider and to the configuration.
C1_ActiveIsRegisteredOrNull ==
    \/ currentProvider = Null
    \/ \E n \in DOMAIN providers : currentProvider = providers[n]

\* C2: with no active provider each of the four forwarding operations fails
\* with 'No provider selected', calls no provider operation and no sink, and
\* leaves the dispatcher state as it was.
C2_NoProviderFailsFast ==
    /\ [](IsForwarded /\ lastOp.pre = Null =>
            /\ lastOp.outcome = "throw"
            /\ lastOp.value = "No provider selected"
            /\ lastOp.callee = "none"
            /\ lastOp.calleeOp = "none"
            /\ lastOp.sink = <<>>)
    /\ [][currentProvider = Null /\ lastOp'.op \in ForwardingOps =>
            /\ currentProvider' = currentProvider
            /\ providers' = providers]_vars

C2_Witness ==
    /\ lastOp.op = "streamResponse"
    /\ lastOp.pre = Null
    /\ lastOp.env.reads # <<>>
    /\ lastOp.value = "No provider selected"

\* C3: setProvider(name) with a name of the registry makes providers[name]
\* active and returns true; with any other name it returns false and leaves
\* the active provider as it was; the registry and the providers are
\* unchanged either way.
C3_SetProviderSwapsOrKeeps ==
    /\ providers = NewRegistry
    /\ IsSetProvider =>
         IF lastOp.arg \in DOMAIN providers
         THEN currentProvider = providers[lastOp.arg] /\ lastOp.value = "true"
         ELSE currentProvider = lastOp.pre /\ lastOp.value = "false"

\* C4: after setProvider(x) returned true, a forwarding operation is
\* delegated to provider x's implementation of the same operation with the
\* same arguments and its result or error comes back unchanged; a failed
\* setProvider in between does not change the target.
C4_ForwardsToSelected ==
    IsForwarded /\ selected # "none" =>
        /\ selected \in DOMAIN providers
        /\ lastOp.callee = selected
        /\ lastOp.calleeOp = lastOp.op
        /\ lastOp.calleeArg = lastOp.arg
        /\ LET r == ProviderOp(providers[selected], lastOp.op, lastOp.env) IN
             /\ lastOp.outcome = r.outcome
             /\ lastOp.value = r.value
             /\ lastOp.sink = r.sink

\* C5 as stated: right after construction, before any setProvider call of
\* the caller, there is no active provider and a forwarding operation fails
\* with 'No provider selected'.
C5_InitiallyUnselected ==
    ~setProviderCalled =>
        /\ currentProvider = Null
        /\ IsForwarded => lastOp.value = "No provider selected"

\* C5 amended: right after construction, before any setProvider call of the
\* caller, the constructor has applied setProvider(DEFAULT_PROVIDER):
\* the active provider is providers[DEFAULT_PROVIDER] when that lookup
\* gives a value, and it is null, with forwarding operations failing with
\* 'No provider selected', exactly when the lookup gives none.
C5_InitiallyDefaultProvider ==
    ~setProviderCalled =>
        LET found == Lookup(NewRegistry, configDefault) IN
        /\ currentProvider = IF Truthy(found) THEN found ELSE Null
        /\ IsForwarded => (lastOp.value = "No provider selected" <=> ~Truthy(found))

C5_Witness ==
    /\ ~setProviderCalled
    /\ configDefault = "ollama"
    /\ currentProvider = providers["ollama"]
    /\ lastOp.op = "generateResponse"
    /\ lastOp.callee = "ollama"

HasFinal(log) == \E i \in 1..Len(log) : log[i].isFinal

\* C6: a streamResponse call of the streaming provider that returns normally
\* has invoked onChunk zero or more times with isFinal=false and then
\* exactly once, as its last invocation, with ('', true).
C6_ReturnEndsWithOneFinal ==
    pc = "returned" =>
        /\ Len(sinkLog) >= 1
        /\ sinkLog[Len(sinkLog)] = Chunk(<<>>, TRUE)
        /\ \A i \in 1..(Len(sinkLog) - 1) : ~sinkLog[i].isFinal

\* C7: within one call, once onChunk was invoked with isFinal=true no
\* further onChunk invocation occurs, whether the sink returns or throws.
C7_NothingAfterFinal ==
    \A i \in 1..Len(sinkLog) : sinkLog[i].isFinal => i = Len(sinkLog)

\* C8: a call that fails throws an explicit error carrying the cause and has
\* delivered no ('', true) chunk; when the fetch rejected or the status was
\* not 2xx the sink was not invoked at all.
C8_FailureHasNoFinal ==
    pc = "threw" =>
        /\ failure \in {StreamError("network_error"), StreamError("http_error"),
                        StreamError("read_error")}
        /\ ~HasFinal(sinkLog)
        /\ failure \in {StreamError("network_error"), StreamError("http_error")}
              => sinkLog = <<>>

\* the same body handed over in one single read
SingleRead(body, onChunk) ==
    OllamaStreamResponse([NoEnv EXCEPT !.reads = <<body>>, !.sink = onChunk])

\* C9: however the body is cut into reads, the (text, false) chunks
\* delivered are those delivered when the whole body comes in one read.
C9_SplitInvariant ==
    pc = "returned" =>
        TextChunks(sinkLog) = TextChunks(SingleRead(content, sink).sink)

\* the lines of a body, as text
LinesOf(body) == NonBlankLines(Decode(body))

SomeLineDone(body) ==
    \E i \in 1..Len(LinesOf(body)) : ParseLine(LinesOf(body)[i]).done

\* C10: the decoder delivers ('', true) if and only if some line of the
\* input carries the completion flag, and then it is the last chunk
\* delivered: everything buffered after that line and all later reads are
\* discarded.
C10_FinalIffDoneLine ==
    pc = "returned" =>
        /\ HasFinal(sinkLog) <=> SomeLineDone(content)
        /\ HasFinal(sinkLog) =>
              /\ sinkLog[Len(sinkLog)] = Chunk(<<>>, TRUE)
              /\ \A i \in 1..(Len(sinkLog) - 1) : ~sinkLog[i].isFinal

\* a step that is one reader.read() with a value, and the bytes it gave
IsReadStep == pc = "read" /\ Len(remaining') < Len(remaining)

ReadBytes == SubSeq(remaining, 1, Len(remaining) - Len(remaining'))

ReadLines == NonBlankLines(Decode(ReadBytes))

Parses(line) == ParseLine(line).ok

\* the chunks a read step added to the log
Delivered == SubSeq(sinkLog', Len(sinkLog) + 1, Len(sinkLog'))

\* C11: a line that fails JSON parsing causes no onChunk invocation and
\* neither aborts nor fails the stream: every read delivers exactly what its
\* parseable lines deliver, in order, the call does not throw in that step,
\* and unless a parseable line ended the call the next read is awaited.
C11_BadLineSkipped ==
    [][IsReadStep =>
         LET r == ProcessLines(SelectSeq(ReadLines, Parses), sink, sinkLog) IN
         /\ sinkLog' = r.log
         /\ pc' = IF r.returned THEN "returned" ELSE "read"
         /\ failure' = "none"]_vars

C11_Witness ==
    /\ content = Join(<< <<"}", "{">>, <<"{", "a", "}">> >>)
    /\ remaining = <<>>
    /\ sinkLog = <<Chunk(<<"a">>, FALSE)>>
    /\ pc = "returned"

\* the (text, false) chunks the lines of a read hold, in their order
TextsOf(lines) ==
    LET withText == SelectSeq(lines, LAMBDA l : ParseLine(l).ok /\ ParseLine(l).response # <<>>)
    IN  [i \in 1..Len(withText) |-> Chunk(ParseLine(withText[i]).response, FALSE)]

IsPrefix(s, t) == Len(s) <= Len(t) /\ s = SubSeq(t, 1, Len(s))

\* a line that parses and holds neither text nor the completion flag
IsEmptyObject(line) ==
    ParseLine(line).ok /\ ParseLine(line).response = <<>> /\ ~ParseLine(line).done

\* C12: a line that parses but holds neither text nor the completion flag
\* delivers nothing and the loop goes on; the lines of one read are all
\* processed in their order of arrival, each line's text chunk before its
\* terminal chunk, before the next read is awaited.
C12_LinesOfOneReadInOrder ==
    [][IsReadStep =>
         /\ LET r == ProcessLines(SelectSeq(ReadLines, LAMBDA l : ~IsEmptyObject(l)),
                                  sink, sinkLog)
            IN  sinkLog' = r.log /\ (pc' = "returned" <=> r.returned)
         /\ IF pc' = "read"
            THEN TextChunks(Delivered) = TextsOf(ReadLines)
            ELSE IsPrefix(TextChunks(Delivered), TextsOf(ReadLines))
         /\ \A i \in 1..Len(Delivered) :
               Delivered[i].isFinal /\ ~sink.throwsOnFinal => i = Len(Delivered)]_vars

C12_Witness ==
    /\ content = Join(<< <<"{", "}">>, <<"{", "b", "!", "}">> >>)
    /\ remaining = <<>>
    /\ sinkLog = <<Chunk(<<"b">>, FALSE), Chunk(<<>>, TRUE)>>
    /\ pc = "returned"

\* the last call reached a provider through the manager
Reached(op) == lastOp.op = op /\ lastOp.callee \in ProviderNames

C14_UnsupportedStreamingIsExplicit ==
    Reached("streamResponse") =>
        LET p == providers[lastOp.callee] IN
        /\ lastOp.outcome = "return" => p.supportsStreaming /\ ImplementsStreaming(p)
        /\ ~p.supportsStreaming \/ ~ImplementsStreaming(p) =>
              /\ lastOp.outcome = "throw"
              /\ lastOp.value = "Streaming not supported by this provider"
              /\ lastOp.sink = <<>>

\* C15: testConnection of a registered provider returns true only when its
\* probe returned a 2xx status; after a network failure, a non-2xx status,
\* without API key, and for the two stub providers it returns false; it
\* never throws.
C15_TestConnectionIsBoolean ==
    Reached("testConnection") =>
        /\ lastOp.outcome = "return"
        /\ lastOp.value \in {"true", "false"}
        /\ lastOp.value = "true" =>
              /\ lastOp.env.net = "ok"
              /\ lastOp.callee \in {"ollama", "openai"}
              /\ lastOp.callee = "openai" => lastOp.env.apiKey
        /\ \/ lastOp.env.net # "ok"
           \/ lastOp.callee \in {"anthropic", "grok"}
           \/ lastOp.callee = "openai" /\ ~lastOp.env.apiKey
           => lastOp.value = "false"

C15_Witness ==
    /\ Reached("testConnection")
    /\ lastOp.callee = "openai"
    /\ lastOp.env.net = "ok"
    /\ ~lastOp.env.apiKey
    /\ lastOp.value = "false"

\* C16: generateResponse of a provider that implements it returns the full
\* text or throws an error that wraps the HTTP status (non-2xx answer) or
\* the network cause (rejected request); a non-2xx answer never gives a
\* normal return.
C16_GenerationErrorWrapsCause ==
    Reached("generateResponse") /\ lastOp.callee \in {"ollama", "openai"} =>
        /\ lastOp.outcome = "return" =>
              lastOp.value = "response text" /\ lastOp.env.net = "ok"
        /\ lastOp.env.net = "http_error" =>
              /\ lastOp.outcome = "throw"
              /\ lastOp.value \in {"Ollama generation failed: HTTP status",
                                   "OpenAI generation failed: HTTP status"}
        /\ lastOp.env.net = "network_error" =>
              /\ lastOp.outcome = "throw"
              /\ lastOp.value \in {"Ollama generation failed: fetch cause",
                                   "OpenAI generation failed: fetch cause"}

\* position in the body of the first and of the last byte of a read
ReadStart == Len(content) - Len(remaining) + 1

ReadEnd == Len(content) - Len(remaining')

\* the read begins after a byte of a line already begun in an earlier read
CutBefore == ReadStart > 1 /\ content[ReadStart - 1] # NL

\* the read ends before the last byte of the text of a line
CutAfter ==
    /\ ReadEnd < Len(content)
    /\ content[ReadEnd] # NL
    /\ content[ReadEnd + 1] # NL

\* the lines of a read that are whole lines of the body
WholeLines ==
    LET pieces == Split(Decode(ReadBytes))
        from == IF CutBefore THEN 2 ELSE 1
        to == IF CutAfter THEN Len(pieces) - 1 ELSE Len(pieces)
    IN  SubSeq(pieces, from, to)

\* C18: the decoder keeps no partial-line buffer.  When a line of the body
\* is cut by a read boundary, the fragment that ends one read and the
\* fragment that begins the next produce no chunk and are dropped; the whole
\* lines of the read are processed as if the fragments were not there.
C18_NoPartialLineBuffer ==
    [][IsReadStep =>
         LET r == ProcessLines(SelectSeq(WholeLines, LAMBDA l : Trim(l) # <<>>),
                               sink, sinkLog) IN
         /\ sinkLog' = r.log
         /\ pc' = "returned" <=> r.returned]_vars

\* the body {"response":"a"} {"done":true} has been read with its first line
\* cut: no text chunk, one terminal chunk
C18_Witness ==
    /\ content = Join(<< <<"{", "a", "}">>, <<"{", "!", "}">> >>)
    /\ sink = QuietSink
    /\ sinkLog = <<Chunk(<<>>, TRUE)>>
    /\ pc = "returned"

\* a send trigger reaches handleSendMessage
TriggerStep == \E kind \in TriggerKinds : HandleSendMessage(kind)

\* C17: under any interleaving of send triggers with pending generations at
\* most one chatManager.sendMessage call, and so at most one provider
\* request, is outstanding: one is outstanding exactly while isGenerating is
\* true, and a trigger that arrives while isGenerating is true returns at
\* the flag, sends nothing and adds no message.
C17_OneSendOutstanding ==
    /\ [](/\ outstanding <= 1
          /\ appGenerating <=> outstanding = 1
          /\ chatPc # "idle" => outstanding = 1)
    /\ [][appGenerating /\ TriggerStep =>
            /\ lastTrigger' = "busy"
            /\ UNCHANGED <<appGenerating, chatGenerating, chatPc, outstanding, turns,
                           display, saveLog, stored, inputValue, inputDisabled>>
            /\ UNCHANGED streamVars]_vars

\* a trigger found the flag set while the field held a message and the body
\* of the turn was being read
C17_Witness ==
    /\ lastTrigger = "busy"
    /\ appGenerating
    /\ inputValue = <<"h", "i">>
    /\ outstanding = 1
    /\ pc = "read"

\* the message group of the turn's bot message, if it is still displayed
BotEntries == { i \in DOMAIN display : display[i].id = botMessageId }

\* C19: ChatManager tolerates a stream without terminal chunk: once the
\* provider's streamResponse has returned, with or without a final chunk,
\* the turn is over, the bot message shows the accumulated text and is not
\* loading, and the accumulated text has been saved; no message is left in
\* the loading state after a turn.
C19_CompleteWithoutFinal ==
    /\ chatPc = "streaming" => pc \in {"fetch", "read"}
    /\ chatPc = "idle" => \A i \in DOMAIN display : ~display[i].loading
    /\ enableStreaming /\ turns > 0 /\ chatPc = "idle" /\ pc = "returned" =>
          /\ \A i \in BotEntries :
                display[i].text = accumulated /\ ~display[i].loading
          /\ saveLog # <<>>
          /\ saveLog[Len(saveLog)].type = "assistant"
          /\ saveLog[Len(saveLog)].content = accumulated

\* a turn whose stream ended without terminal chunk: the message is
\* complete and saved
C19_Witness ==
    /\ chatPc = "idle"
    /\ pc = "returned"
    /\ ~HasFinal(sinkLog)
    /\ accumulated = <<"a", "b">>
    /\ \E i \in BotEntries : display[i].text = <<"a", "b">> /\ ~display[i].loading
    /\ saveLog[Len(saveLog)].content = <<"a", "b">>

\* the messages storage has received since the turn began
TurnSaved == SubSeq(saveLog, turn.saved + 1, Len(saveLog))

RECURSIVE ConcatTexts(_)
ConcatTexts(chunks) ==
    IF chunks = <<>> THEN <<>> ELSE Head(chunks).text \o ConcatTexts(Tail(chunks))

\* C20: in streaming mode storage receives, for each turn, the user message
\* first; then, only when the provider stream has returned, one assistant
\* message whose content is the texts of the non-final chunks of the turn
\* in order; when the stream throws, no assistant message.
C20_TurnSavesUserThenAssistant ==
    enableStreaming /\ turns > 0 =>
        /\ TurnSaved # <<>>
        /\ TurnSaved[1].type = "user"
        /\ TurnSaved[1].content = turn.message
        /\ IF chatPc = "idle" /\ pc = "returned"
           THEN /\ Len(TurnSaved) = 2
                /\ TurnSaved[2].type = "assistant"
                /\ TurnSaved[2].content = ConcatTexts(TextChunks(sinkLog))
           ELSE Len(TurnSaved) = 1

\* a turn that delivered two text chunks and a final chunk
C20_Witness ==
    /\ enableStreaming
    /\ chatPc = "idle"
    /\ pc = "returned"
    /\ sinkLog = <<Chunk(<<"a">>, FALSE), Chunk(<<"b">>, FALSE), Chunk(<<>>, TRUE)>>
    /\ Len(TurnSaved) = 2
    /\ TurnSaved[2].content = <<"a", "b">>

\* C22: every send that has passed the isGenerating guards sets both flags
\* back to false and enables the input again, whether the provider call
\* returns or throws, provided the call settles.
C22_GeneratingIsReset ==
    /\ appGenerating ~> (~appGenerating /\ ~chatGenerating /\ ~inputDisabled)
    /\ [](chatPc = "idle" => ~appGenerating /\ ~chatGenerating /\ ~inputDisabled)

\* a turn whose provider call threw has ended
C22_Witness ==
    /\ turns > 0
    /\ chatPc = "idle"
    /\ pc = "threw"
    /\ lastError = "Failed to generate response"
    /\ ~appGenerating
    /\ ~inputDisabled

\* C27: after any sequence of provider-change events, with any
\* DEFAULT_PROVIDER and any selected names, the currentProvider field of the
\* application names the active provider of the dispatcher.
C27_AppNamesActiveProvider ==
    /\ Truthy(currentProvider)
    /\ appProvider = currentProvider.name

\* C28: the provider recorded on the saved assistant message of a turn is
\* the provider that got the generation call of the turn.
C28_SavedProviderProducedResponse ==
    turns > 0 /\ chatPc = "idle" /\ Len(TurnSaved) = 2 =>
        TurnSaved[2].provider = genTarget.name

\* C21: whatever the interleaving of chatManager.sendMessage calls, at most
\* one call is past the isGenerating guard at a time, so no two generations
\* are outstanding together, and isGenerating is never false while a
\* generation is running.
C21_OneCallPastGuard ==
    /\ Cardinality(Running) <= 1
    /\ \A i \in DOMAIN calls : calls[i].pc = "generating" => chatGenerating

\* the messages of the stored current conversation
StoredMessages == GetConversationHistory(local, 0)

\* a saveMessage call made while a current conversation exists leaves that
\* conversation its id
IdKeptBySaveMessage ==
    storageOps' # storageOps /\ lastStorageOp'.op = "saveMessage"
        /\ LoadCurrentConversation(local) # Null =>
            /\ LoadCurrentConversation(local') # Null
            /\ LoadCurrentConversation(local').id = LoadCurrentConversation(local).id

C30_ImportRestoresExport ==
    lastStorageOp.op = "importData" /\ lastStorageOp.result = TRUE =>
        /\ LoadConversationHistory(local) = Parse(exported).conversations
        /\ LoadCurrentConversation(local) = Parse(exported).currentConversation
        /\ LoadSettings(local) = Parse(exported).settings

\* the stored messages that were saved under the conversation id
SavedUnder(id) ==
    SelectSeq(StoredMessages, LAMBDA m : m.conversationId = id)

\* C24: getConversationHistory(conversationId) returns only messages saved
\* under that id: after switchConversation(B) the display holds the messages
\* of B only, and a prompt built for B has lines of messages of B only.
C24_HistoryIsOfConversation ==
    /\ historyOp.op = "switchConversation" =>
          display = HistoryEntries(SavedUnder(conversationId))
    /\ historyOp.op = "buildConversationContext" /\ conversationMemory =>
          context.history = ContextLines(SavedUnder(conversationId), context.user)

\* C25: the prompt built by buildConversationContext has lines of the last
\* 10 messages of the stored history at most, whatever the number of stored
\* messages.
C25_ContextOfLastTen ==
    historyOp.op = "buildConversationContext" /\ conversationMemory =>
        /\ Len(context.history) <= HistoryLimit
        /\ context.history = ContextLines(LastN(StoredMessages, HistoryLimit), context.user)

\* C26: a confirmed clear, through handleClearChat or through clearChat,
\* deletes the stored conversation: getConversationHistory then returns an
\* empty sequence; and a notification of the clearing is shown only if no
\* stored message is left.
C26_ClearDeletesStored ==
    /\ historyOp.op \in {"handleClearChat", "clearChat"} /\ historyOp.confirmed =>
          GetConversationHistory(local, conversationId) = <<>>
    /\ historyOp.op \in {"handleClearChat", "clearChat"}
          /\ toast \in {"Conversation cleared", "Chat history permanently deleted"} =>
          StoredMessages = <<>>

\* the 'AI Assistant' entries the history holds after the user message of
\* the turn
RECURSIVE AfterLastYou(_)
AfterLastYou(history) ==
    IF history = <<>> THEN <<>>
    ELSE IF history[Len(history)].sender = "You" THEN <<>>
    ELSE Append(AfterLastYou(SubSeq(history, 1, Len(history) - 1)),
                history[Len(history)])

\* C29: in the single-file client each AI response is saved to
\* conversationHistory once, when it is complete: after a streamed generation
\* that delivered text, the history has one 'AI Assistant' entry for the turn,
\* holding the full accumulated text; and the history never exceeds 100
\* entries.
C29_ResponseSavedOnce ==
    /\ Len(clientHistory) <= ClientHistoryLimit
    /\ turns > 0 /\ pc = "returned" /\ accumulated # <<>> =>
          AfterLastYou(clientHistory) = <<HistoryItem("AI Assistant", accumulated)>>

====
